---- MODULE Spec2Model ----
(***************************************************************************)
(* The assistant interaction state machine of src/App.tsx: continuous      *)
(* speech capture with debounced finalisation, asynchronous intent          *)
(* resolution, streamed / browser speech output and the automatic          *)
(* re-listen timer.  Every handler of the component is an operator on a    *)
(* record holding the component's state (React state, refs, the browser    *)
(* devices it drives); an action applies one handler to the current state. *)
(***************************************************************************)
EXTENDS Integers, Sequences, FiniteSets, TLC

(***************************************************************************)
(* Bounds of the model.                                                    *)
(***************************************************************************)
\* number of recognition sessions opened in one run
MaxTurns == 2
\* recognition sessions opened in a run in which a search, a classification
\* and a third utterance overlap
OverlapTurns == 3
\* recognition update events delivered in one session
MaxResults == 2
\* speak() invocations in one run
MaxSpeak == 2
\* browser TTS utterances created in one run
MaxUtt == 2
\* recognition sessions opened in one run with a streamed voice
StreamTurns == 1
\* granularity of the clock, in ms
TickMs == 500
\* recognition sessions opened in one run when the classification service is
\* modelled call by call
ClassifyTurns == 2
\* chunks read from the byte source of one reply
MaxChunks == 2

(***************************************************************************)
(* Program constants.                                                      *)
(***************************************************************************)
\* App.tsx:679  window.setTimeout(..., 1500)
DebounceMs == 1500
\* App.tsx:612  setTimeout(..., 700)
RelistenMs == 700

\* api.ts:52  const maxRetries = 3
maxRetries == 3
\* api.ts:53  let delay = 1000
InitialDelayMs == 1000

\* a timer handle with no timer pending
NoTimer == 0 - 1

(***************************************************************************)
(* Text.  A string is a sequence of one-character strings.  Characters     *)
(* keep their origin: "f" and "g" only occur in final segments, "i" only   *)
(* in interim segments, " " is white space.                                *)
(***************************************************************************)
IsSpace(c) == c = " "

RECURSIVE TrimStart(_)
TrimStart(s) ==
  IF s = <<>> THEN <<>>
  ELSE IF IsSpace(Head(s)) THEN TrimStart(Tail(s)) ELSE s

RECURSIVE TrimEnd(_)
TrimEnd(s) ==
  IF s = <<>> THEN <<>>
  ELSE IF IsSpace(s[Len(s)]) THEN TrimEnd(SubSeq(s, 1, Len(s) - 1)) ELSE s

\* String.prototype.trim
Trim(s) == TrimEnd(TrimStart(s))

\* the characters of s
Chars(s) == {s[k] : k \in 1..Len(s)}

\* the value of a field that an object does not have
Missing == "undefined"
MissingText == << "undefined" >>

(***************************************************************************)
(* Numbers.  A JavaScript number is an integer or NaN; arithmetic and      *)
(* Math.min / Math.max give NaN as soon as one operand is NaN.             *)
(***************************************************************************)
Num(v) == [nan |-> FALSE, v |-> v]
NaN == [nan |-> TRUE, v |-> 0]

Plus(a, d) == IF a.nan THEN NaN ELSE Num(a.v + d)

MathMin(a, b) ==
  IF a.nan \/ b.nan THEN NaN ELSE IF a.v < b.v THEN a ELSE b

MathMax(a, b) ==
  IF a.nan \/ b.nan THEN NaN ELSE IF a.v > b.v THEN a ELSE b

IsDigit(c) == c \in { "0", "1", "2", "3", "4", "5", "6", "7", "8", "9" }

DigitValue(c) ==
  CASE c = "0" -> 0 [] c = "1" -> 1 [] c = "2" -> 2 [] c = "3" -> 3
    [] c = "4" -> 4 [] c = "5" -> 5 [] c = "6" -> 6 [] c = "7" -> 7
    [] c = "8" -> 8 [] c = "9" -> 9

\* the value of a string of digits, read from the left
RECURSIVE DigitsValue(_, _)
DigitsValue(s, acc) ==
  IF s = <<>> THEN acc ELSE DigitsValue(Tail(s), 10 * acc + DigitValue(Head(s)))

\* the longest prefix of s made of digits
RECURSIVE DigitPrefix(_)
DigitPrefix(s) ==
  IF s = <<>> \/ ~IsDigit(Head(s)) THEN <<>>
  ELSE << Head(s) >> \o DigitPrefix(Tail(s))

\* Number(s) for a string: white space is trimmed, the empty string is 0, an
\* optional sign and digits give their value, anything else is NaN
ToNumber(s) ==
  LET u == Trim(s)
      neg == u # <<>> /\ Head(u) = "-"
      d == IF neg THEN Tail(u) ELSE u
  IN  IF u = <<>> THEN Num(0)
      ELSE IF d # <<>> /\ DigitPrefix(d) = d
           THEN Num(IF neg THEN 0 - DigitsValue(d, 0) ELSE DigitsValue(d, 0))
           ELSE NaN

\* parseInt(s, 10): leading white space is skipped, an optional sign and
\* the digits that follow give the value, whatever comes after them; no
\* digit gives NaN
ParseInt(s) ==
  LET u == TrimStart(s)
      neg == u # <<>> /\ Head(u) = "-"
      d == DigitPrefix(IF neg THEN Tail(u) ELSE u)
  IN  IF d = <<>> THEN NaN
      ELSE Num(IF neg THEN 0 - DigitsValue(d, 0) ELSE DigitsValue(d, 0))

(***************************************************************************)
(* State.                                                                  *)
(***************************************************************************)
VARIABLES
  assistantState,       \* useState<AssistantState>, App.tsx:36
  assistantStateRef,    \* assistantStateRef.current, App.tsx:79
  assistantStatusText,  \* App.tsx:39
  transcript,           \* displayed transcript, App.tsx:37
  fullTranscriptRef,    \* fullTranscriptRef.current, App.tsx:84
  assistantReply,       \* App.tsx:38
  recognitionActive,    \* recognitionActive.current, App.tsx:78
  rec,                  \* the SpeechRecognition device session
  debounce,             \* ms left on the timer of debounceTimeoutRef, or NoTimer
  relisten,             \* ms left on each pending re-listen timer
  inflight,             \* handleTranscript calls awaiting their result
  searches,             \* searchYouTube calls awaiting their result
  youtubeSearchResults, \* App.tsx:49
  sp,                   \* the speak() invocations of the run
  utt,                  \* the SpeechSynthesisUtterances of the run
  audio,                \* the <audio> element and the refs of App.tsx:90-93
  selectedVoice,        \* App.tsx:73
  api,                  \* the handleTranscript call in progress (services)
  media,                \* volume, brightness and the YouTube player
  hist                  \* history: what the last step did, and counters

vars == << assistantState, assistantStateRef, assistantStatusText, transcript,
           fullTranscriptRef, assistantReply, recognitionActive, rec, debounce,
           relisten, inflight, searches, youtubeSearchResults, sp, utt, audio,
           selectedVoice, api, media, hist >>

\* the state as one record, the argument and result of every handler
St ==
  [ assistantState |-> assistantState,
    assistantStateRef |-> assistantStateRef,
    assistantStatusText |-> assistantStatusText,
    transcript |-> transcript,
    fullTranscriptRef |-> fullTranscriptRef,
    assistantReply |-> assistantReply,
    recognitionActive |-> recognitionActive,
    rec |-> rec,
    debounce |-> debounce,
    relisten |-> relisten,
    inflight |-> inflight,
    searches |-> searches,
    youtubeSearchResults |-> youtubeSearchResults,
    sp |-> sp,
    utt |-> utt,
    audio |-> audio,
    selectedVoice |-> selectedVoice,
    api |-> api,
    media |-> media,
    hist |-> hist ]

Set(s) ==
  /\ assistantState' = s.assistantState
  /\ assistantStateRef' = s.assistantStateRef
  /\ assistantStatusText' = s.assistantStatusText
  /\ transcript' = s.transcript
  /\ fullTranscriptRef' = s.fullTranscriptRef
  /\ assistantReply' = s.assistantReply
  /\ recognitionActive' = s.recognitionActive
  /\ rec' = s.rec
  /\ debounce' = s.debounce
  /\ relisten' = s.relisten
  /\ inflight' = s.inflight
  /\ searches' = s.searches
  /\ youtubeSearchResults' = s.youtubeSearchResults
  /\ sp' = s.sp
  /\ utt' = s.utt
  /\ audio' = s.audio
  /\ selectedVoice' = s.selectedVoice
  /\ api' = s.api
  /\ media' = s.media
  /\ hist' = s.hist

\* a handler notes the calls it makes on the devices and services
Mark(s, l) == [s EXCEPT !.hist.ran = @ \cup {l}]

(***************************************************************************)
(* Speech output: window.speechSynthesis and the <audio> element.          *)
(***************************************************************************)
\* speechSynthesis.cancel(): every utterance being spoken is removed; the
\* browser then reports it to the utterance (an error or end event)
speechSynthesisCancel(u) ==
  [k \in DOMAIN u |->
     IF u[k].st = "speaking" THEN [u[k] EXCEPT !.st = "cancelled"] ELSE u[k]]

\* The media source of the element is detached (audio.src is replaced): its
\* source buffer is removed, an append in progress is aborted and the buffer
\* still reports updateend for it
detach(s) ==
  IF s.audio.src \in DOMAIN s.sp /\ s.sp[s.audio.src].ready \in { "open", "ended" }
  THEN [s EXCEPT !.sp[s.audio.src].ready = "closed",
                 !.sp[s.audio.src].updating = FALSE,
                 !.sp[s.audio.src].events =
                    IF s.sp[s.audio.src].updating THEN @ + 1 ELSE @]
  ELSE s

\* mediaSourceRef.current.endOfStream() inside try/catch: it throws while an
\* append is in progress, and the catch block only warns
stopSpeaking_endOfStream(s) ==
  LET m == s.audio.mediaSourceRef
  IN  IF m \in DOMAIN s.sp /\ s.sp[m].ready = "open"
      THEN IF s.sp[m].updating THEN Mark(s, "endOfStream threw")
           ELSE [Mark(s, "endOfStream") EXCEPT !.sp[m].ready = "ended"]
      ELSE s

\* (variant for C23: the chunk queue is kept)
stopSpeaking_keepsQueue(s) ==
  LET s1 == Mark(s, "stopSpeaking")
      s2 == [s1 EXCEPT !.utt = speechSynthesisCancel(s1.utt)]
  IN  [detach(stopSpeaking_endOfStream(s2)) EXCEPT
         !.audio.st = "empty", !.audio.src = 0,
         !.audio.mediaSourceRef = 0, !.audio.sourceBufferRef = 0,
         !.audio.isSourceBufferUpdatingRef = FALSE]

stopSpeaking(s) ==
  LET s1 == Mark(s, "stopSpeaking")
      s2 == [s1 EXCEPT !.utt = speechSynthesisCancel(s1.utt)]
  IN  [detach(stopSpeaking_endOfStream(s2)) EXCEPT
         !.audio.st = "empty", !.audio.src = 0,
         !.audio.mediaSourceRef = 0, !.audio.sourceBufferRef = 0,
         !.audio.queue = <<>>, !.audio.isSourceBufferUpdatingRef = FALSE]

\* useBrowserTTS(text, onEnd) called by speak invocation i: onEnd is its handleEnd
useBrowserTTS(s, text, i) ==
  LET s1 == Mark(s, "speechSynthesis.speak")
  IN  [s1 EXCEPT !.utt = Append(speechSynthesisCancel(s1.utt),
                                [owner |-> i, st |-> "speaking",
                                 text |-> text])]

\* text.replace(/[^\p{L}\p{N}\s.,?!]/gu, ' ')
RECURSIVE ReplaceSymbols(_)
ReplaceSymbols(t) ==
  IF t = <<>> THEN <<>>
  ELSE << IF Head(t) = "*" THEN " " ELSE Head(t) >> \o ReplaceSymbols(Tail(t))

\* .replace(/\s+/g, ' ')
RECURSIVE CollapseSpaces(_)
CollapseSpaces(t) ==
  IF Len(t) < 2 THEN t
  ELSE IF IsSpace(t[1]) /\ IsSpace(t[2]) THEN CollapseSpaces(Tail(t))
       ELSE << Head(t) >> \o CollapseSpaces(Tail(t))

Clean(text) == Trim(CollapseSpaces(ReplaceSymbols(text)))

\* (variant for C27: Pause is not among the media actions)
mediaActions_withoutPause ==
  { "play_music", "play_video", "search_youtube", "next_video", "previous_video",
    "play", "volume", "set_brightness" }

mediaActions ==
  { "play_music", "play_video", "search_youtube", "next_video", "previous_video",
    "play", "pause", "volume", "set_brightness" }

\* the fixed, non-empty messages the component speaks by itself
Message == << "m" >>

RECURSIVE speak(_, _, _, _, _)

\* no value: null
Null == "null"

\* video.title of a search result
Title(video) == << "title of", video >>

\* the index of the first result, as currentVideoIndex holds it
First == "0"

\* what the panels show: the panel asked for, the video and the results
PanelState(s) ==
  [ targetPanel |-> s.media.targetPanel,
    youtubeVideoId |-> s.media.youtubeVideoId,
    youtubeVideoTitle |-> s.media.youtubeVideoTitle,
    currentVideoIndex |-> s.media.currentVideoIndex,
    youtubeSearchResults |-> s.youtubeSearchResults ]

handleVideoSelect(s, video, index) ==
  [Mark(s, "handleVideoSelect") EXCEPT
     !.media.youtubeVideoId = video,
     !.media.youtubeVideoTitle = Title(video),
     !.media.currentVideoIndex = index,
     !.media.targetPanel = "youtube"]

\* the values of currentVideoIndex, as written in the state, in order
Indices == << "0", "1", "2" >>

\* the number that the index value i stands for, and the value of number n
IndexNumber(i) == CHOOSE n \in 0..(Len(Indices) - 1) : Indices[n + 1] = i
IndexValue(n) == Indices[n + 1]

\* App.tsx:436-454; the message is spoken with a callback that closes the
\* panel
handleSkipToNextVideo(s) ==
  IF Len(s.youtubeSearchResults) > 0 /\ s.media.currentVideoIndex # Null
  THEN LET nextIndex == IndexNumber(s.media.currentVideoIndex) + 1
       IN  IF nextIndex < Len(s.youtubeSearchResults)
           THEN [Mark(s, "skip") EXCEPT
                   !.media.youtubeVideoId = s.youtubeSearchResults[nextIndex + 1],
                   !.media.currentVideoIndex = IndexValue(nextIndex),
                   !.media.youtubeVideoTitle =
                      Title(s.youtubeSearchResults[nextIndex + 1])]
           ELSE speak(Mark(s, "end of list"), Message, "close", "reply",
                      s.youtubeSearchResults)
  ELSE s

\* ysr: the youtubeSearchResults of the render whose closure is running.
\* A search in progress keeps what the panels showed when the action was
\* dispatched (before) and when it started to wait for the search (after),
\* for the claims about the dispatcher
processAssistantResponse(s, action, ysr) ==
  CASE action \in {"search_youtube", "play_music"} ->
         LET s1 == [Mark(s, "searchYouTube") EXCEPT
                      !.assistantStatusText = "Searching...",
                      !.media.targetPanel = "none"]
         IN  [s1 EXCEPT
                !.searches = Append(@, [action |-> action, ysr |-> ysr,
                                        before |-> PanelState(s),
                                        after |-> PanelState(s1)])]
    [] action = "play_video" ->
         IF Len(ysr) > 0
         THEN handleVideoSelect(s, ysr[1], First)
         ELSE speak(s, Message, "none", "reply", ysr)
    [] action = "pause" ->
         IF s.media.player
         THEN [Mark(s, "pauseVideo") EXCEPT !.media.playing = FALSE]
         ELSE s
    [] OTHER -> s

\* the timer armed after every action, whatever its kind
executeActionAndContinueListening_always(s, action, ysr) ==
  [processAssistantResponse(s, action, ysr) EXCEPT
     !.relisten = Append(@, RelistenMs)]

executeActionAndContinueListening(s, action, ysr) ==
  LET s1 == processAssistantResponse(s, action, ysr)
  IN  IF action \in mediaActions
      THEN [s1 EXCEPT !.relisten = Append(@, RelistenMs)]
      ELSE s1

\* the onEndCallback of a speak invocation
onEndCallback(s, cb, action, ysr) ==
  CASE cb = "exec" -> executeActionAndContinueListening(s, action, ysr)
    [] cb = "close" -> [Mark(s, "close panel") EXCEPT !.media.targetPanel = "none"]
    [] OTHER -> s

\* handleEnd of speak invocation i; ended counts its runs
handleEnd(s, i) ==
  LET s1 == [Mark(s, "handleEnd") EXCEPT !.assistantState = "idle",
                                         !.sp[i].ended = @ + 1]
  IN  onEndCallback(s1, s.sp[i].cb, s.sp[i].action, s.sp[i].ysr)

speak(s, text, cb, action, ysr) ==
  LET cleanedText == Clean(text)
      i == Len(s.sp) + 1
      s1 == [s EXCEPT !.assistantState = "speaking",
                      !.assistantStatusText = "...",
                      !.assistantReply = cleanedText]
      s2 == stopSpeaking(s1)
      new(pc) == [pc |-> pc, cb |-> cb, action |-> action, ysr |-> ysr,
                  play |-> "none", text |-> cleanedText, ended |-> 0,
                  ready |-> "none", updating |-> FALSE, events |-> 0,
                  chunks |-> 0, appended |-> <<>>]
  IN  IF text = MissingText
      THEN Mark(s, "speak threw")
      ELSE IF cleanedText = <<>>
      THEN onEndCallback(s, cb, action, ysr)
      ELSE IF s.selectedVoice = "elevenlabs"
           THEN [Mark(s2, "generateSpeech") EXCEPT !.sp = Append(@, new("gen"))]
           ELSE useBrowserTTS([s2 EXCEPT !.sp = Append(@, new("end"))],
                              cleanedText, i)

(***************************************************************************)
(* The classification service: handleTranscript of services/api.ts, which  *)
(* calls the model through callGeminiWithRetry, and handleTranscript of    *)
(* part_001, which calls it once.  A call in progress is a record: the     *)
(* loop counter and delay, the calls made, the waits taken, and how it     *)
(* ended.                                                                  *)
(***************************************************************************)
Variants == { "services/api.ts", "part_001" }

NewCall(variant) ==
  [ variant |-> variant, pc |-> "call", i |-> 0, delay |-> InitialDelayMs,
    calls |-> 0, waited |-> <<>>, log |-> <<>>, outcome |-> "pending",
    response |-> [action |-> Missing, replyText |-> MissingText] ]

\* the loop with every error handled as a rate-limit error
callGeminiWithRetry_retriesAll(a, result) ==
  LET a1 == [a EXCEPT !.calls = @ + 1, !.log = Append(@, result)]
  IN  IF result = "ok" THEN [a1 EXCEPT !.pc = "parse"]
      ELSE IF a.i < maxRetries - 1
      THEN [a1 EXCEPT !.pc = "sleep"]
      ELSE [a1 EXCEPT !.pc = "done", !.outcome = "quota error"]

\* api.ts:56-76, one turn of the loop: the call of this attempt settled with
\* "ok", with a rate-limit / quota error ("rate") or with another error
callGeminiWithRetry(a, result) ==
  LET a1 == [a EXCEPT !.calls = @ + 1, !.log = Append(@, result)]
  IN  CASE result = "ok" -> [a1 EXCEPT !.pc = "parse"]
        [] result = "rate" ->
             IF a.i < maxRetries - 1
             THEN [a1 EXCEPT !.pc = "sleep"]
             ELSE [a1 EXCEPT !.pc = "done", !.outcome = "quota error"]
        [] OTHER -> [a1 EXCEPT !.pc = "done", !.outcome = "error"]

\* the wait without the doubling of api.ts:66
callGeminiWithRetry_afterSleep_sameDelay(a) ==
  [a EXCEPT !.waited = Append(@, a.delay), !.i = @ + 1, !.pc = "call"]

\* api.ts:65-66, after await sleep(delay)
callGeminiWithRetry_afterSleep(a) ==
  [a EXCEPT !.waited = Append(@, a.delay), !.delay = @ * 2, !.i = @ + 1,
            !.pc = "call"]

\* api.ts:94-101: JSON.parse of the text, returned as it is parsed
handleTranscript_parse(a, payload) ==
  IF payload.parses
  THEN [a EXCEPT !.pc = "done", !.outcome = "response",
                 !.response = [action |-> payload.action,
                               replyText |-> payload.replyText]]
  ELSE [a EXCEPT !.pc = "done", !.outcome = "parse error"]

\* part_001:95-103 and 114-123: one call; a failure is caught and answered
\* with the apology reply
part001_handleTranscript(a, result) ==
  LET a1 == [a EXCEPT !.calls = @ + 1, !.log = Append(@, result)]
  IN  IF result = "ok" THEN [a1 EXCEPT !.pc = "parse"]
      ELSE [a1 EXCEPT !.pc = "done", !.outcome = "apology"]

\* part_001:105-123: JSON.parse, then the test for action and replyText
part001_handleTranscript_parse(a, payload) ==
  IF /\ payload.parses
     /\ payload.action # Missing
     /\ payload.replyText # MissingText
  THEN [a EXCEPT !.pc = "done", !.outcome = "response",
                 !.response = [action |-> payload.action,
                               replyText |-> payload.replyText]]
  ELSE [a EXCEPT !.pc = "done", !.outcome = "apology"]

(***************************************************************************)
(* Speech capture.                                                         *)
(***************************************************************************)
\* recognition.start(): opens a session, or throws InvalidStateError when one
\* is already open
startThrows(s) == s.rec # "off"

\* the guard of startListening without the test for 'speaking'
startBlocked_ignoresSpeaking(s) ==
  \/ s.recognitionActive
  \/ s.assistantStateRef = "thinking"

\* App.tsx:269; isOnCooldown is never set and stays false
startBlocked(s) ==
  \/ s.recognitionActive
  \/ s.assistantStateRef = "thinking"
  \/ s.assistantStateRef = "speaking"

\* startListening with a catch block that only logs
startListening_catchLogsOnly(s) ==
  IF startBlocked(s)
  THEN Mark(s, "blocked")
  ELSE LET s1 == [s EXCEPT !.assistantState = "listening",
                           !.assistantStatusText = "Listening...",
                           !.transcript = <<>>,
                           !.fullTranscriptRef = <<>>,
                           !.assistantReply = <<>>,
                           !.hist.expected = <<>>]
           s2 == Mark(stopSpeaking(s1), "recognition.start")
       IN  IF startThrows(s2)
           THEN [Mark(s2, "start threw") EXCEPT !.hist.threw = TRUE]
           ELSE [s2 EXCEPT !.rec = "starting", !.hist.turns = @ + 1]

\* startListening without the reset of fullTranscriptRef (App.tsx:277)
startListening_keepsText(s) ==
  IF startBlocked(s)
  THEN Mark(s, "blocked")
  ELSE LET s1 == [s EXCEPT !.assistantState = "listening",
                           !.assistantStatusText = "Listening...",
                           !.transcript = <<>>,
                           !.assistantReply = <<>>,
                           !.hist.expected = <<>>]
           s2 == Mark(stopSpeaking(s1), "recognition.start")
       IN  IF startThrows(s2)
           THEN [Mark(s2, "start threw") EXCEPT
                    !.recognitionActive = FALSE,
                    !.assistantState = "error",
                    !.assistantStatusText = "Mic Error",
                    !.hist.threw = TRUE]
           ELSE [s2 EXCEPT !.rec = "starting", !.hist.turns = @ + 1]

startListening(s) ==
  IF startBlocked(s)
  THEN Mark(s, "blocked")
  ELSE LET s1 == [s EXCEPT !.assistantState = "listening",
                           !.assistantStatusText = "Listening...",
                           !.transcript = <<>>,
                           !.fullTranscriptRef = <<>>,
                           !.assistantReply = <<>>,
                           !.hist.expected = <<>>]
           s2 == Mark(stopSpeaking(s1), "recognition.start")
       IN  IF startThrows(s2)
           THEN [Mark(s2, "start threw") EXCEPT
                    !.recognitionActive = FALSE,
                    !.assistantState = "error",
                    !.assistantStatusText = "Mic Error",
                    !.hist.threw = TRUE]
           ELSE [s2 EXCEPT !.rec = "starting", !.hist.turns = @ + 1]

processTranscript(s, text) ==
  IF text = <<>>
  THEN [s EXCEPT !.assistantState = "idle"]
  ELSE LET s1 == [s EXCEPT !.assistantState = "thinking",
                           !.assistantStatusText = "Thinking..."]
           s2 == Mark(stopSpeaking(s1), "handleTranscript")
       IN  [s2 EXCEPT !.inflight =
                         Append(@, [text |-> text, ysr |-> s.youtubeSearchResults]),
                      !.api = NewCall(s.api.variant),
                      !.hist.arg = text]

\* the concatenation of the transcripts of the segments of ev that are final
\* (want = TRUE) or interim (want = FALSE)
RECURSIVE Concat(_, _)
Concat(ev, want) ==
  IF ev = <<>> THEN <<>>
  ELSE (IF Head(ev).isFinal = want THEN Head(ev).transcript ELSE <<>>)
       \o Concat(Tail(ev), want)

\* the loop of onresult with the interim transcripts added to the final ones
finalTranscriptChunk_withInterim(ev) == Concat(ev, TRUE) \o Concat(ev, FALSE)

\* the loop of onresult (App.tsx:664-670, part_000:522-528): the transcripts
\* of the final segments of the event, concatenated
finalTranscriptChunk(ev) == Concat(ev, TRUE)

interimTranscript(ev) == Concat(ev, FALSE)

\* onresult of the earlier variant of the component: what it hands to
\* processCommand, if it calls it
part000_onresult(ev) ==
  IF finalTranscriptChunk(ev) # <<>>
  THEN [called |-> TRUE, command |-> Trim(finalTranscriptChunk(ev))]
  ELSE [called |-> FALSE, command |-> <<>>]

\* what the specification calls finalizedText: the trimmed final segments,
\* joined by single spaces (history; the code does not read it)
RECURSIVE Joined(_, _)
Joined(acc, ev) ==
  IF ev = <<>> THEN acc
  ELSE LET t == Trim(Head(ev).transcript)
           next == IF ~Head(ev).isFinal \/ t = <<>> THEN acc
                   ELSE IF acc = <<>> THEN t ELSE acc \o << " " >> \o t
       IN  Joined(next, Tail(ev))

\* some final segment of ev carries text (history)
HasFinalText(ev) ==
  \E k \in DOMAIN ev : ev[k].isFinal /\ Trim(ev[k].transcript) # <<>>

recognition_onstart(s) == [s EXCEPT !.recognitionActive = TRUE, !.rec = "on"]

\* whether the update arms a new debounce timer
armsDebounce(chunk) == Trim(chunk) # <<>>

recognition_onresult(s, ev) ==
  LET s1 == [s EXCEPT !.debounce = NoTimer,
                      !.transcript = s.fullTranscriptRef \o interimTranscript(ev),
                      !.hist.expected = Joined(@, ev),
                      !.hist.sinceFinal = IF HasFinalText(ev) THEN 0 ELSE @,
                      !.hist.results = @ + 1]
  IN  IF armsDebounce(finalTranscriptChunk(ev))
      THEN [s1 EXCEPT !.fullTranscriptRef =
                         @ \o Trim(finalTranscriptChunk(ev)) \o << " " >>,
                      !.debounce = DebounceMs,
                      !.hist.armed = s.hist.turns]
      ELSE s1

\* recognitionRef.current.stop()
recognitionStop(s) ==
  IF s.rec \in {"starting", "on"} THEN [s EXCEPT !.rec = "stopping"] ELSE s

\* the callback of the debounce timer
debounceCallback(s) ==
  LET s1 == [s EXCEPT !.debounce = NoTimer]
  IN  IF s1.recognitionActive
      THEN recognitionStop(Mark(s1, "recognition.stop"))
      ELSE s1

\* the accumulated text taken as it is
finalSpokenText_untrimmed(s) == s.fullTranscriptRef

\* App.tsx:689
finalSpokenText(s) == Trim(s.fullTranscriptRef)

\* onend without the clearTimeout of App.tsx:685
recognition_onend_keepsTimer(s) ==
  LET s1 == [s EXCEPT !.recognitionActive = FALSE,
                      !.rec = "off"]
  IN  IF s1.assistantStateRef = "listening"
      THEN IF finalSpokenText(s1) # <<>>
           THEN processTranscript(s1, finalSpokenText(s1))
           ELSE [s1 EXCEPT !.assistantState = "idle",
                           !.assistantStatusText = "Activate Assistant"]
      ELSE s1

recognition_onend(s) ==
  LET s1 == [s EXCEPT !.debounce = NoTimer,
                      !.recognitionActive = FALSE,
                      !.rec = "off"]
  IN  IF s1.assistantStateRef = "listening"
      THEN IF finalSpokenText(s1) # <<>>
           THEN processTranscript(s1, finalSpokenText(s1))
           ELSE [s1 EXCEPT !.assistantState = "idle",
                           !.assistantStatusText = "Activate Assistant"]
      ELSE s1

\* onerror without the clearTimeout of App.tsx:701
recognition_onerror_keepsTimer(s, error) ==
  LET s1 == [s EXCEPT !.rec = "errored", !.hist.threw = FALSE]
  IN  IF error # "no-speech" /\ error # "aborted"
      THEN [s1 EXCEPT !.assistantState = "error",
                      !.assistantStatusText = "Mic Error"]
      ELSE [s1 EXCEPT !.assistantState = "idle"]

recognition_onerror(s, error) ==
  LET s1 == [s EXCEPT !.debounce = NoTimer, !.rec = "errored",
                      !.hist.threw = FALSE]
  IN  IF error # "no-speech" /\ error # "aborted"
      THEN [s1 EXCEPT !.assistantState = "error",
                      !.assistantStatusText = "Mic Error"]
      ELSE [s1 EXCEPT !.assistantState = "idle"]

\* the callback of a re-listen timer
relistenCallback(s) ==
  IF s.assistantStateRef = "idle" THEN startListening(s) ELSE s

(***************************************************************************)
(* Continuations of speak(): the streamed path.                            *)
(***************************************************************************)
\* generateSpeech settled for speak invocation i
speak_afterGenerateSpeech(s, i, outcome) ==
  IF outcome = "stream"
  THEN [detach(Mark(s, "audio.play")) EXCEPT
          !.sp[i].pc = "open", !.sp[i].play = "pending",
          !.audio.src = i, !.audio.st = "loading", !.audio.handler = i,
          !.audio.mediaSourceRef = i]
  ELSE useBrowserTTS([s EXCEPT !.sp[i].pc = "end"], s.sp[i].text, i)

\* audio.play() rejected
speak_playCatch(s, i) ==
  useBrowserTTS([s EXCEPT !.sp[i].play = "settled"], s.sp[i].text, i)

\* the sourceopen listener: addSourceBuffer succeeded (ok) or threw
speak_sourceopen(s, i, ok) ==
  IF ok THEN [s EXCEPT !.sp[i].pc = "stream", !.sp[i].ready = "open",
                       !.audio.sourceBufferRef = i]
  ELSE useBrowserTTS([s EXCEPT !.sp[i].pc = "end"], s.sp[i].text, i)

\* one turn of the reader loop: a chunk was read and is appended; the append
\* throws when the media source is no longer attached to the element (the
\* source was cleared, or the element failed).  Playback starts with the
\* first chunk, which settles the promise of audio.play()
speak_readChunk(s, i) ==
  IF s.audio.src = i /\ s.audio.st # "error"
  THEN IF s.audio.st = "loading" /\ s.sp[i].play = "pending"
       THEN [s EXCEPT !.audio.st = "playing", !.sp[i].play = "settled"]
       ELSE s
  ELSE useBrowserTTS([s EXCEPT !.sp[i].pc = "end"], s.sp[i].text, i)

\* (variant for C18: the catch block only logs)
speak_readCatch_silent(s, i) == [s EXCEPT !.sp[i].pc = "end"]

\* reader.read() rejected
speak_readCatch(s, i) ==
  useBrowserTTS([s EXCEPT !.sp[i].pc = "end"], s.sp[i].text, i)

\* reader.read() returned done
speak_readDone(s, i) == [s EXCEPT !.sp[i].pc = "end"]

audio_onended(s) == handleEnd([s EXCEPT !.audio.st = "ended"], s.audio.handler)

audio_onerror(s) ==
  useBrowserTTS([s EXCEPT !.audio.st = "error"], s.sp[s.audio.handler].text,
                s.audio.handler)

(***************************************************************************)
(* The reader loop and the updateend listener in detail (App.tsx:374-397): *)
(* sourceBuffer.updating is sp[i].updating, mediaSource.readyState is      *)
(* sp[i].ready, audioQueueRef.current is audio.queue (one queue for every  *)
(* speak call).  A chunk is named by the speak call that read it and its   *)
(* position in that byte source; sp[i].appended lists the chunks given to  *)
(* the sink of speak call i.                                               *)
(***************************************************************************)
Chunk(i, n) == [from |-> i, n |-> n]

\* sourceBuffer.appendBuffer throws InvalidStateError when the buffer was
\* removed from its media source, when an append is in progress, or when the
\* element has an error
appendThrows(s, i) ==
  \/ s.sp[i].ready = "closed"
  \/ s.sp[i].updating
  \/ s.audio.src = i /\ s.audio.st = "error"

\* sourceBuffer.appendBuffer(c) on the sink of speak call i; an ended media
\* source is opened again by the append
appendBuffer(s, i, c) ==
  LET s1 == Mark(s, "appendBuffer")
      s2 == IF s.sp[i].updating THEN Mark(s1, "append in progress") ELSE s1
  IN  IF appendThrows(s, i) THEN Mark(s2, "appendBuffer threw")
      ELSE [s2 EXCEPT !.sp[i].updating = TRUE, !.sp[i].ready = "open",
                      !.sp[i].appended = Append(@, c)]

\* (variant for C20: the loop only looks at the queue)
mustEnqueue_queueOnly(s, i) == Len(s.audio.queue) > 0

\* sourceBuffer.updating || audioQueueRef.current.length > 0
mustEnqueue(s, i) == s.sp[i].updating \/ Len(s.audio.queue) > 0

\* one turn of the reader loop of speak call i: a chunk was read
sink_readChunk(s, i) ==
  LET value == Chunk(i, s.sp[i].chunks + 1)
      s1 == [s EXCEPT !.sp[i].chunks = @ + 1]
      s2 == appendBuffer([s1 EXCEPT !.audio.isSourceBufferUpdatingRef = TRUE],
                         i, value)
  IN  IF mustEnqueue(s, i)
      THEN [Mark(s1, "enqueue") EXCEPT !.audio.queue = Append(@, value)]
      ELSE IF "appendBuffer threw" \in s2.hist.ran
           THEN useBrowserTTS([s2 EXCEPT !.sp[i].pc = "end"], s.sp[i].text, i)
           ELSE s2

\* the append in progress on the sink of speak call i is complete: updating
\* is reset and updateend is queued; the element starts to play with the
\* first data, which settles the promise of audio.play()
sink_appendDone(s, i) ==
  LET s1 == [s EXCEPT !.sp[i].updating = FALSE, !.sp[i].events = @ + 1]
  IN  IF s.audio.src = i /\ s.audio.st = "loading"
      THEN [s1 EXCEPT !.audio.st = "playing", !.sp[i].play = "settled"]
      ELSE s1

\* the updateend listener of the sink of speak call i; endOfStream throws
\* while an append is in progress, which the listener catches
sink_updateend(s, i) ==
  LET s1 == [s EXCEPT !.sp[i].events = @ - 1,
                      !.audio.isSourceBufferUpdatingRef = FALSE]
  IN  IF Len(s.audio.queue) > 0
      THEN IF ~s.sp[i].updating /\ s.sp[i].ready = "open"
           THEN appendBuffer([s1 EXCEPT !.audio.queue = Tail(@)], i,
                             Head(s.audio.queue))
           ELSE s1
      ELSE IF s.sp[i].ready = "open" /\ ~s.sp[i].updating
           THEN [Mark(s1, "endOfStream") EXCEPT !.sp[i].ready = "ended"]
           ELSE s1

\* utterance.onend / utterance.onerror, through onEndOnce
utterance_onEndOnce(s, u) ==
  IF s.utt[u].st = "done" THEN s
  ELSE handleEnd([s EXCEPT !.utt[u].st = "done"], s.utt[u].owner)

(***************************************************************************)
(* Continuations of processTranscript and processAssistantResponse.        *)
(***************************************************************************)
Remove(q, k) == SubSeq(q, 1, k - 1) \o SubSeq(q, k + 1, Len(q))

\* handleTranscript resolved with a response
processTranscript_then(s, k, action, replyText) ==
  speak([s EXCEPT !.inflight = Remove(@, k)], replyText, "exec", action,
        s.inflight[k].ysr)

\* (variant for C15: the catch block continues as after a media action)
processTranscript_catch_relistens(s, k) ==
  speak([s EXCEPT !.inflight = Remove(@, k)], Message, "exec", "pause",
        s.inflight[k].ysr)

\* handleTranscript rejected
processTranscript_catch(s, k) ==
  speak([s EXCEPT !.inflight = Remove(@, k)], Message, "none", "reply",
        s.inflight[k].ysr)

\* the promise of handleTranscript settles when the call is done:
\* processTranscript continues with the response, or in its catch block
handleTranscript_settled(s) ==
  CASE s.api.outcome = "pending" -> s
    [] s.api.outcome = "response" ->
         processTranscript_then(Mark(s, "response"), 1, s.api.response.action,
                                s.api.response.replyText)
    [] s.api.outcome = "apology" ->
         processTranscript_then(Mark(s, "apology"), 1, "reply", Message)
    [] OTHER -> processTranscript_catch(Mark(s, "rejected"), 1)

\* the model call of the current attempt settled
handleTranscript_afterCall(s, result) ==
  handleTranscript_settled(
    [s EXCEPT !.api = IF s.api.variant = "part_001"
                      THEN part001_handleTranscript(s.api, result)
                      ELSE callGeminiWithRetry(s.api, result)])

handleTranscript_afterSleep(s) ==
  [s EXCEPT !.api = callGeminiWithRetry_afterSleep(s.api)]

\* the text of the model's answer is parsed
handleTranscript_afterText(s, payload) ==
  handleTranscript_settled(
    [s EXCEPT !.api = IF s.api.variant = "part_001"
                      THEN part001_handleTranscript_parse(s.api, payload)
                      ELSE handleTranscript_parse(s.api, payload)])

\* searchYouTube resolved with results: the rest of the SearchYouTube or
\* PlayMusic case
processAssistantResponse_then(s, k, results) ==
  LET s1 == [s EXCEPT !.searches = Remove(@, k),
                      !.hist.search = << s.searches[k] >>]
  IN  IF Len(results) > 0
      THEN IF s.searches[k].action = "search_youtube"
           THEN [Mark(s1, "show results") EXCEPT
                   !.youtubeSearchResults = results,
                   !.media.targetPanel = "youtubeSearchResults"]
           ELSE handleVideoSelect(
                  [Mark(s1, "show results") EXCEPT
                     !.youtubeSearchResults = results],
                  results[1], First)
      ELSE speak(s1, Message, "none", "reply", s.searches[k].ysr)

\* searchYouTube rejected: processAssistantResponse has no catch block and
\* nothing awaits it (executeActionAndContinueListening), so the rejection
\* is unhandled
processAssistantResponse_rejected(s, k) ==
  [Mark(s, "unhandled rejection") EXCEPT
     !.searches = Remove(@, k), !.hist.search = << s.searches[k] >>]

\* How a search that fails ends.  searchYouTube of services/api.ts throws
\* for a missing key, a network error and a response that is not OK;
\* searchYouTube of part_001 has no key test, catches every error and
\* returns an empty list
SearchFailures == { "no key", "network", "not ok" }

searchYouTube_failed(s, k, cause) ==
  IF s.media.searchService = "part_001"
  THEN processAssistantResponse_then(s, k, <<>>)
  ELSE processAssistantResponse_rejected(s, k)

(***************************************************************************)
(* Volume and brightness: the Volume and SetBrightness cases of             *)
(* processAssistantResponse (App.tsx:550-579) and the Volume case of        *)
(* handleAssistantAction (part_000:332-357).  media.player tells whether    *)
(* the YouTube player exists, media.playerVolume is what its getVolume()    *)
(* returns.                                                                 *)
(***************************************************************************)
Components == { "App.tsx", "part_000" }

\* useState(100) for volume and brightness; no player before a video plays
NewMedia(component) ==
  [ component |-> component, player |-> FALSE, volume |-> Num(100),
    brightness |-> Num(100), playerVolume |-> Num(100),
    searchService |-> "services/api.ts", playing |-> FALSE,
    targetPanel |-> "none", renderedPanel |-> "none",
    youtubeVideoId |-> Null, youtubeVideoTitle |-> Null,
    currentVideoIndex |-> Null, playerVideo |-> Null ]

Increase == << "i", "n", "c", "r", "e", "a", "s", "e" >>
Decrease == << "d", "e", "c", "r", "e", "a", "s", "e" >>

\* case AssistantAction.Volume of App.tsx
processAssistantResponse_Volume(m, level) ==
  LET currentVolume == m.playerVolume
      newVolume == IF level = Increase THEN Plus(currentVolume, 10)
                   ELSE IF level = Decrease THEN Plus(currentVolume, 0 - 10)
                   ELSE ToNumber(level)
  IN  IF m.player /\ level # MissingText
      THEN [m EXCEPT !.volume = MathMax(Num(0), MathMin(Num(100), newVolume))]
      ELSE m

\* case AssistantAction.SetBrightness of App.tsx
processAssistantResponse_SetBrightness(m, level) ==
  LET newBrightness == IF level = Increase THEN Plus(m.brightness, 10)
                       ELSE IF level = Decrease THEN Plus(m.brightness, 0 - 10)
                       ELSE ToNumber(level)
  IN  IF level # MissingText
      THEN [m EXCEPT !.brightness =
                        MathMax(Num(20), MathMin(Num(150), newBrightness))]
      ELSE m

\* case AssistantAction.Volume of part_000
handleAssistantAction_Volume(m, level) ==
  LET parsedLevel == ParseInt(level)
      newVolume ==
        IF level = Increase THEN MathMin(Plus(m.volume, 10), Num(100))
        ELSE IF level = Decrease THEN MathMax(Plus(m.volume, 0 - 10), Num(0))
        ELSE IF level # MissingText /\ ~parsedLevel.nan
             THEN MathMax(Num(0), MathMin(Num(100), parsedLevel))
             ELSE m.volume
  IN  IF m.player THEN [m EXCEPT !.volume = newVolume] ELSE m

\* what getVolume() can return after player.setVolume(v): v, and for a v that
\* is not a number (the player's interface does not say) v or the old value
playerSetVolume(m, v) == IF v.nan THEN { m.playerVolume, v } ELSE { v }

(***************************************************************************)
(* OpenUrl: the case of processAssistantResponse (App.tsx:581-583) and of   *)
(* handleAssistantAction (part_000:358-367).  A URL is the sequence of its  *)
(* characters; the result is the sequence of the URLs given to window.open. *)
(***************************************************************************)
\* the i flag of the regular expression: the letter in lower case
ToLower(c) ==
  CASE c = "H" -> "h" [] c = "T" -> "t" [] c = "P" -> "p" [] c = "S" -> "s"
    [] OTHER -> c

StartsWith(s, prefix) ==
  /\ Len(s) >= Len(prefix)
  /\ \A k \in 1..Len(prefix) : ToLower(s[k]) = prefix[k]

\* /^https?:\/\//i.test(url)
TestHttpScheme(url) ==
  \/ StartsWith(url, << "h", "t", "t", "p", ":", "/", "/" >>)
  \/ StartsWith(url, << "h", "t", "t", "p", "s", ":", "/", "/" >>)

\* 'https://' + url
HttpsPrefix == << "h", "t", "t", "p", "s", ":", "/", "/" >>

\* if (params?.url) window.open(params.url, '_blank', 'noopener,noreferrer')
processAssistantResponse_OpenUrl(url) ==
  IF url = MissingText \/ url = <<>> THEN <<>> ELSE << url >>

\* case AssistantAction.OpenUrl of part_000
handleAssistantAction_OpenUrl(url) ==
  IF url = MissingText \/ url = <<>> THEN <<>>
  ELSE IF ~TestHttpScheme(url) THEN << HttpsPrefix \o url >>
       ELSE << url >>

(***************************************************************************)
(* Inputs.                                                                 *)
(***************************************************************************)
Seg(f, t) == [isFinal |-> f, transcript |-> t]

FinalTexts == { << "f" >>, << " ", "g" >>, << " " >> }
InterimTexts == { << "i" >> }
Segments == {Seg(TRUE, t) : t \in FinalTexts} \cup {Seg(FALSE, t) : t \in InterimTexts}

\* recognition update events carrying one or two segments
Events == {<< a >> : a \in Segments} \cup {<< a, b >> : a \in Segments, b \in Segments}

\* the events of the full machine: a final segment, an interim one
CoarseEvents == { << Seg(TRUE, << "f" >>) >>, << Seg(FALSE, << "i" >>) >> }

RecognitionErrors == { "no-speech", "aborted", "network" }

\* the action kinds that differ for the speech machine; search_youtube, which
\* differs from play_music in the panels only, is classified in SpecMedia
Actions == { "play_music", "play_video", "pause", "reply" }

\* an action kind that is not a member of AssistantAction
UnknownAction == "dance"

\* a reply with letters, and one that is symbols only
ReplyTexts == { << "r", "*" >>, << "*" >> }

ResultLists == { <<>>, << "v1", "v2" >> }

\* what a later search for something else finds
OtherResults == << "v3" >>

\* the level parameter of a volume or brightness action: a step, a number
\* as text, a text that is no number, no level at all
Levels ==
  { Increase, Decrease, << "5" >>, << "5", "0" >>, << "9", "5" >>,
    << "9", "9", "9" >>, << "-", "5" >>, << "l", "o", "u", "d" >>,
    MissingText }

\* the values the user sets with the controls of the player
PlayerVolumes == { 5, 95 }

\* the url parameter of an OpenUrl action: a host name, URLs with a scheme in
\* lower and upper case, one with another scheme, the empty text, no url
Urls ==
  { << "a", ".", "b" >>,
    << "h", "t", "t", "p", ":", "/", "/", "a" >>,
    << "h", "t", "t", "p", "s", ":", "/", "/", "a" >>,
    << "H", "T", "T", "P", "S", ":", "/", "/", "a" >>,
    << "f", "t", "p", ":", "/", "/", "a" >>,
    << "h", "t", "t", "p" >>,
    <<>>, MissingText }

\* how a call of the model ends
CallResults == { "ok", "rate", "other" }

\* the text the model answers with: not JSON, or JSON with or without the
\* fields action and replyText
Payloads ==
  { [parses |-> FALSE, action |-> Missing, replyText |-> MissingText] }
    \cup { [parses |-> TRUE, action |-> a, replyText |-> r] :
             a \in { "play_music", "reply", Missing },
             r \in ReplyTexts \cup { MissingText } }

(***************************************************************************)
(* Initial state: the component after mount, with the voice that was saved  *)
(* (App.tsx:108-109).  "elevenlabs" stands for a premium voice with the     *)
(* API key configured (App.tsx:350), "browser" for every other case.        *)
(***************************************************************************)
\* limit: the number of sessions of the run when it is not the default of the
\* voice and service variant (0)
BootLimited(voice, variant, m, limit) ==
  /\ assistantState = "idle"
  /\ assistantStateRef = "idle"
  /\ assistantStatusText = "Activate Assistant"
  /\ transcript = <<>>
  /\ fullTranscriptRef = <<>>
  /\ assistantReply = <<>>
  /\ recognitionActive = FALSE
  /\ rec = "off"
  /\ debounce = NoTimer
  /\ relisten = <<>>
  /\ inflight = <<>>
  /\ searches = <<>>
  /\ youtubeSearchResults = <<>>
  /\ sp = <<>>
  /\ utt = <<>>
  /\ audio = [src |-> 0, st |-> "empty", handler |-> 0, queue |-> <<>>,
              mediaSourceRef |-> 0, sourceBufferRef |-> 0,
              isSourceBufferUpdatingRef |-> FALSE]
  /\ selectedVoice = voice
  /\ api = NewCall(variant)
  /\ media = m
  /\ hist = [ op |-> "init", ran |-> {}, arg |-> <<>>, input |-> <<>>,
              turns |-> 0, results |-> 0, sinceFinal |-> NoTimer,
              expected |-> <<>>, search |-> <<>>, opened |-> <<>>,
              armed |-> 0, threw |-> FALSE, limit |-> limit ]

BootState(voice, variant, m) == BootLimited(voice, variant, m, 0)

BootMedia(voice, variant, component) ==
  BootState(voice, variant, NewMedia(component))

\* the component of App.tsx
BootWith(voice, variant) == BootMedia(voice, variant, "App.tsx")

\* volume and brightness alone, in the component of App.tsx or of part_000
InitLevels == \E c \in Components : BootMedia("browser", "none", c)

\* the classification service taken as one step (variant "none")
Boot(voice) == BootWith(voice, "none")

Init == Boot("browser")

\* the same component in a run of OverlapTurns sessions
InitOverlap == BootLimited("browser", "none", NewMedia("App.tsx"), OverlapTurns)

InitStream == Boot("elevenlabs")

\* the component with either variant of the classification service
InitClassify == \E v \in Variants : BootWith("browser", v)

\* the component of App.tsx with either variant of the search service
InitMedia ==
  \E v \in Variants :
    BootState("browser", "none",
              [NewMedia("App.tsx") EXCEPT !.searchService = v])

(***************************************************************************)
(* Actions: one per handler, callback or continuation.                     *)
(***************************************************************************)
\* the state a handler starts from, with the history of the step reset; the
\* history of a recognition session is dropped once the session is over
Begin(op, input) ==
  [St EXCEPT !.hist.op = op, !.hist.ran = {}, !.hist.arg = <<>>,
             !.hist.input = input, !.hist.search = <<>>,
             !.hist.opened = <<>>,
             !.hist.armed = IF debounce = NoTimer THEN 0 ELSE @,
             !.hist.threw = IF assistantState = "error" THEN @ ELSE FALSE,
             !.hist.expected = IF rec = "off" THEN <<>> ELSE @,
             !.hist.sinceFinal = IF rec = "off" THEN NoTimer ELSE @,
             !.hist.results = IF rec = "off" THEN 0 ELSE @]

Bounded(s) ==
  /\ s.hist.turns <= (IF s.hist.limit # 0 THEN s.hist.limit
                      ELSE IF s.selectedVoice = "elevenlabs" THEN StreamTurns
                      ELSE IF s.api.variant # "none" THEN ClassifyTurns
                      ELSE MaxTurns)
  /\ s.hist.results <= MaxResults
  /\ Len(s.sp) <= MaxSpeak
  /\ Len(s.utt) <= MaxUtt

Do(s) == Bounded(s) /\ Set(s)

\* The effect of App.tsx:98-101 has run.  The effect follows the render that
\* a state change schedules: it has run before time passes and before any
\* handler runs, except the handlers that read the reference and so race
\* with it (the button's startListening, the re-listen timer, onend)
Synced == assistantStateRef = assistantState

SyncRef ==
  /\ ~Synced
  /\ Do([Begin("sync", <<>>) EXCEPT !.assistantStateRef = assistantState])

\* the arc reactor button, enabled while the rendered state is idle or error
UserClick ==
  /\ assistantState \in { "idle", "error" }
  /\ Do(startListening(Begin("click", <<>>)))

OnStart ==
  /\ rec = "starting"
  /\ Synced
  /\ Do(recognition_onstart(Begin("onstart", <<>>)))

OnResult(ev) ==
  /\ Synced
  /\ rec \in { "on", "stopping" }
  /\ Do(recognition_onresult(Begin("onresult", ev), ev))

OnError(e) ==
  /\ Synced
  /\ rec \in { "starting", "on" }
  /\ Do(recognition_onerror(Begin("onerror", e), e))

OnEnd ==
  /\ rec \in { "on", "stopping", "errored" }
  /\ Do(recognition_onend(Begin("onend", <<>>)))

Max(a, b) == IF a > b THEN a ELSE b
Min(a, b) == IF a < b THEN a ELSE b

\* what is delivered before time passes: timers that are due, the fate of a
\* cancelled utterance, the rejection of a play() whose source was cleared
Due ==
  \/ debounce = 0
  \/ \E k \in DOMAIN relisten : relisten[k] = 0
  \/ \E u \in DOMAIN utt : utt[u].st = "cancelled"
  \/ \E i \in DOMAIN sp : sp[i].play = "pending" /\ audio.src # i

\* TickMs pass; no timer that is due is overtaken
Tick ==
  /\ Synced
  /\ ~Due
  /\ debounce > 0 \/ relisten # <<>>
  /\ Do([Begin("tick", <<>>) EXCEPT
           !.debounce = IF @ > 0 THEN Max(0, @ - TickMs) ELSE @,
           !.relisten = [k \in DOMAIN relisten |-> Max(0, relisten[k] - TickMs)],
           !.hist.sinceFinal = IF @ >= 0 THEN Min(DebounceMs, @ + TickMs) ELSE @])

DebounceFire ==
  /\ Synced
  /\ debounce = 0
  /\ Do(debounceCallback(Begin("debounce", <<>>)))

RelistenFire ==
  \E k \in DOMAIN relisten :
    /\ relisten[k] = 0
    /\ Do(relistenCallback([Begin("relisten", <<>>) EXCEPT
                              !.relisten = Remove(@, k)]))

ClassifyResolve ==
  /\ Synced
  /\ api.variant = "none"
  /\ \E k \in DOMAIN inflight, a \in Actions, r \in ReplyTexts :
    Do(processTranscript_then(Begin("classified", a), k, a, r))

\* the utterance is classified as a search
ClassifySearch ==
  /\ Synced
  /\ api.variant = "none"
  /\ \E k \in DOMAIN inflight, r \in ReplyTexts :
    Do(processTranscript_then(Begin("classified", "search_youtube"), k,
                              "search_youtube", r))

\* the classifier answers with a kind the dispatcher does not know
ClassifyUnknown ==
  /\ Synced
  /\ api.variant = "none"
  /\ \E k \in DOMAIN inflight, r \in ReplyTexts :
    Do(processTranscript_then(Begin("classified", UnknownAction), k,
                              UnknownAction, r))

ClassifyFail ==
  /\ Synced
  /\ api.variant = "none"
  /\ \E k \in DOMAIN inflight :
    Do(processTranscript_catch(Begin("classify failed", <<>>), k))

\* the model call of the attempt in progress settles
CallSettled ==
  /\ Synced
  /\ api.variant # "none"
  /\ inflight # <<>>
  /\ api.pc = "call"
  /\ \E r \in CallResults :
       Do(handleTranscript_afterCall(Begin("call settled", r), r))

\* the backoff wait is over
SleepDone ==
  /\ Synced
  /\ inflight # <<>>
  /\ api.pc = "sleep"
  /\ Do(handleTranscript_afterSleep(Begin("sleep done", <<>>)))

\* the text of the answer is read
TextParsed ==
  /\ Synced
  /\ inflight # <<>>
  /\ api.pc = "parse"
  /\ \E p \in Payloads :
       Do(handleTranscript_afterText(Begin("text parsed", p), p))

SearchResolve ==
  /\ Synced
  /\ \E k \in DOMAIN searches, r \in ResultLists :
    Do(processAssistantResponse_then(Begin("searched", r), k, r))

SearchFail ==
  /\ Synced
  /\ \E k \in DOMAIN searches, cause \in SearchFailures :
    Do(searchYouTube_failed(Begin("search failed", cause), k, cause))

GenerateSpeechSettled ==
  /\ Synced
  /\ \E i \in DOMAIN sp, o \in { "stream", "null" } :
    /\ sp[i].pc = "gen"
    /\ Do(speak_afterGenerateSpeech(Begin("generateSpeech settled", o), i, o))

PlayRejected ==
  /\ Synced
  /\ \E i \in DOMAIN sp :
    /\ sp[i].play = "pending"
    /\ Do(speak_playCatch(Begin("play rejected", <<>>), i))

SourceOpen ==
  /\ Synced
  /\ \E i \in DOMAIN sp, ok \in BOOLEAN :
    /\ sp[i].pc = "open"
    /\ audio.src = i
    /\ Do(speak_sourceopen(Begin("sourceopen", ok), i, ok))

ReadChunk ==
  /\ Synced
  /\ \E i \in DOMAIN sp :
    /\ sp[i].pc = "stream"
    /\ Do(speak_readChunk(Begin("read chunk", <<>>), i))

ReadFailed ==
  /\ Synced
  /\ \E i \in DOMAIN sp :
    /\ sp[i].pc = "stream"
    /\ Do(speak_readCatch(Begin("read failed", <<>>), i))

ReadDone ==
  /\ Synced
  /\ \E i \in DOMAIN sp :
    /\ sp[i].pc = "stream"
    /\ Do(speak_readDone(Begin("read done", <<>>), i))

\* the element reaches the end of what was buffered after endOfStream
AudioEnded ==
  /\ Synced
  /\ audio.st = "playing"
  /\ Do(audio_onended(Begin("audio ended", <<>>)))

AudioError ==
  /\ Synced
  /\ audio.st \in { "loading", "playing" }
  /\ Do(audio_onerror(Begin("audio error", <<>>)))

\* the utterance finished, or failed
UtteranceEnd ==
  /\ Synced
  /\ \E u \in DOMAIN utt :
    /\ utt[u].st = "speaking"
    /\ Do(utterance_onEndOnce(Begin("utterance end", <<>>), u))

\* the browser reports a cancelled utterance to its handlers
UtteranceCancelled ==
  /\ Synced
  /\ \E u \in DOMAIN utt :
    /\ utt[u].st = "cancelled"
    /\ Do(utterance_onEndOnce(Begin("utterance cancelled", <<>>), u))

\* the browser drops a cancelled utterance without telling its handlers
UtteranceDropped ==
  /\ Synced
  /\ \E u \in DOMAIN utt :
       /\ utt[u].st = "cancelled"
       /\ Do([Begin("utterance dropped", <<>>) EXCEPT !.utt[u].st = "done"])

\* reader.read() of speak call i resolves with a chunk
SinkChunk ==
  /\ Synced
  /\ \E i \in DOMAIN sp :
       /\ sp[i].pc = "stream"
       /\ sp[i].chunks < MaxChunks
       /\ Do(sink_readChunk(Begin("chunk", i), i))

\* the sink of speak call i has taken the data of the append in progress
SinkAppendDone ==
  /\ Synced
  /\ \E i \in DOMAIN sp :
       /\ sp[i].updating
       /\ Do(sink_appendDone(Begin("append done", i), i))

\* the updateend event of the sink of speak call i is delivered
SinkUpdateEnd ==
  /\ Synced
  /\ \E i \in DOMAIN sp :
       /\ sp[i].events > 0
       /\ Do(sink_updateend(Begin("updateend", i), i))

\* the element has played all the data of a media source that was ended
SinkEnded ==
  /\ Synced
  /\ audio.st = "playing"
  /\ audio.src \in DOMAIN sp
  /\ sp[audio.src].ready = "ended"
  /\ Do(audio_onended(Begin("audio ended", <<>>)))

\* the onReady event of a new YouTube player (App.tsx:468-471, part_000:151)
PlayerReady ==
  /\ ~media.player
  /\ \E pv \in playerSetVolume(media, media.volume) :
       Do([Begin("player ready", <<>>) EXCEPT
             !.media.player = TRUE, !.media.playerVolume = pv])

\* the user moves the volume control of the player
PlayerControl ==
  /\ media.player
  /\ \E v \in PlayerVolumes :
       Do([Begin("player control", v) EXCEPT !.media.playerVolume = Num(v)])

\* a Volume action is dispatched; the effect on [volume] (App.tsx:246-250,
\* part_000:185-189) hands a changed volume to the player
VolumeAction ==
  \E level \in Levels :
    LET m == IF media.component = "App.tsx"
             THEN processAssistantResponse_Volume(media, level)
             ELSE handleAssistantAction_Volume(media, level)
    IN  \E pv \in IF m.player /\ m.volume # media.volume
                  THEN playerSetVolume(m, m.volume)
                  ELSE { m.playerVolume } :
          Do([Begin("volume", level) EXCEPT
                !.media = [m EXCEPT !.playerVolume = pv]])

\* a SetBrightness action is dispatched (App.tsx only)
BrightnessAction ==
  /\ media.component = "App.tsx"
  /\ \E level \in Levels :
       Do([Begin("brightness", level) EXCEPT
             !.media = processAssistantResponse_SetBrightness(media, level)])

\* an OpenUrl action is dispatched
OpenUrlAction ==
  \E url \in Urls :
    Do([Begin("open url", url) EXCEPT
          !.hist.opened = IF media.component = "App.tsx"
                          THEN processAssistantResponse_OpenUrl(url)
                          ELSE handleAssistantAction_OpenUrl(url)])

\* the panel animation effect (App.tsx:145-164): the panel shown follows the
\* panel asked for, at once when no panel is shown and after the exit
\* animation of 500 ms otherwise (the effect's cleanup clears the timer when
\* the panel asked for changes again)
PanelEffect ==
  /\ Synced
  /\ media.targetPanel # media.renderedPanel
  /\ Do([Begin("panel", <<>>) EXCEPT
           !.media.renderedPanel = media.targetPanel])

\* the player effect (App.tsx:456-497): with the video panel shown, a player
\* is created for the video, starts playing (autoplay) and onReady sets its
\* volume; playerRef keeps the player when the panel is closed
CreatePlayer ==
  /\ Synced
  /\ media.renderedPanel = "youtube"
  /\ media.youtubeVideoId # Null
  /\ media.playerVideo # media.youtubeVideoId
  /\ \E pv \in playerSetVolume(media, media.volume) :
       Do([Begin("player created", <<>>) EXCEPT
             !.media.player = TRUE, !.media.playing = TRUE,
             !.media.playerVideo = media.youtubeVideoId,
             !.media.playerVolume = pv])

\* a search finds other videos than the searches before it
SearchResolveOther ==
  /\ Synced
  /\ \E k \in DOMAIN searches :
    Do(processAssistantResponse_then(Begin("searched", OtherResults), k,
                                     OtherResults))

\* the user picks entry k of the list in the search results panel
\* (App.tsx:793)
VideoSelect ==
  /\ Synced
  /\ media.renderedPanel = "youtubeSearchResults"
  /\ \E k \in DOMAIN youtubeSearchResults :
    Do(handleVideoSelect(Begin("video select", k), youtubeSearchResults[k],
                         IndexValue(k - 1)))

\* onError of the player with one of the codes 2, 5, 100, 101, 150
\* (App.tsx:475-481): the video cannot be played
PlayerError ==
  /\ Synced
  /\ media.player
  /\ media.renderedPanel = "youtube"
  /\ media.playerVideo = media.youtubeVideoId
  /\ Do(handleSkipToNextVideo(
          [Begin("player error", <<>>) EXCEPT
             !.assistantStatusText = "Playback error, trying next video..."]))

Capture ==
  \/ UserClick
  \/ SyncRef
  \/ OnStart
  \/ \E e \in RecognitionErrors : OnError(e)
  \/ OnEnd
  \/ Tick
  \/ DebounceFire

Output ==
  \/ RelistenFire
  \/ ClassifyResolve
  \/ ClassifyFail
  \/ SearchResolve
  \/ SearchFail
  \/ UtteranceEnd
  \/ UtteranceCancelled
  \/ UtteranceDropped

Streamed ==
  \/ GenerateSpeechSettled
  \/ PlayRejected
  \/ SourceOpen
  \/ ReadChunk
  \/ ReadFailed
  \/ ReadDone
  \/ AudioEnded
  \/ AudioError

\* the whole machine, speaking with a browser voice
Next ==
  \/ Capture
  \/ \E ev \in CoarseEvents : OnResult(ev)
  \/ Output

Spec == Init /\ [][Next]_vars

\* the whole machine in a run long enough for a search, a classification and
\* a third utterance to overlap
SpecOverlap == InitOverlap /\ [][Next]_vars

\* the whole machine, speaking with a streamed voice, for StreamTurns sessions
NextStream ==
  \/ Capture
  \/ \E ev \in CoarseEvents : OnResult(ev)
  \/ Output
  \/ Streamed

SpecStream == InitStream /\ [][NextStream]_vars

Service ==
  \/ CallSettled
  \/ SleepDone
  \/ TextParsed

\* the machine with the classification service call by call, for
\* ClassifyTurns sessions in which the device reports one final segment and
\* no error
NextClassify ==
  \/ UserClick
  \/ SyncRef
  \/ OnStart
  \/ OnResult(<< Seg(TRUE, << "f" >>) >>)
  \/ OnEnd
  \/ Tick
  \/ DebounceFire
  \/ Service
  \/ RelistenFire
  \/ SearchResolve
  \/ SearchFail
  \/ UtteranceEnd
  \/ UtteranceCancelled
  \/ UtteranceDropped

SpecClassify == InitClassify /\ [][NextClassify]_vars

\* one reply spoken with a streamed voice, with the reader loop and the sink
\* in detail: chunks arrive, appends complete and updateend is delivered in
\* every order
NextSink ==
  \/ UserClick
  \/ SyncRef
  \/ OnStart
  \/ OnResult(<< Seg(TRUE, << "f" >>) >>)
  \/ OnEnd
  \/ ClassifyResolve
  \/ GenerateSpeechSettled
  \/ SourceOpen
  \/ SinkChunk
  \/ ReadDone
  \/ SinkAppendDone
  \/ SinkUpdateEnd
  \/ SinkEnded
  \/ UtteranceEnd
  \/ UtteranceCancelled

SpecSink == InitStream /\ [][NextSink]_vars

\* the machine with the panels and the YouTube player, and either variant of
\* the search service, for sessions in which the device reports one final
\* segment and no error
NextMedia ==
  \/ UserClick
  \/ SyncRef
  \/ OnStart
  \/ OnResult(<< Seg(TRUE, << "f" >>) >>)
  \/ OnEnd
  \/ Tick
  \/ DebounceFire
  \/ RelistenFire
  \/ ClassifyResolve
  \/ ClassifySearch
  \/ ClassifyUnknown
  \/ SearchResolve
  \/ SearchFail
  \/ UtteranceEnd
  \/ UtteranceCancelled
  \/ UtteranceDropped
  \/ PanelEffect
  \/ CreatePlayer

SpecMedia == InitMedia /\ [][NextMedia]_vars

\* search, play, selection in the list and skipping of unplayable videos
NextVideo ==
  \/ NextMedia
  \/ SearchResolveOther
  \/ VideoSelect
  \/ PlayerError

SpecVideo == InitMedia /\ [][NextVideo]_vars

\* the volume, brightness and open-url actions alone
NextLevels ==
  \/ PlayerReady
  \/ PlayerControl
  \/ VolumeAction
  \/ BrightnessAction
  \/ OpenUrlAction

SpecLevels == InitLevels /\ [][NextLevels]_vars

\* speech capture alone, with every event of one or two segments
NextCapture ==
  \/ Capture
  \/ \E ev \in Events : OnResult(ev)

SpecCapture == Init /\ [][NextCapture]_vars

\* speech capture where what the component schedules itself does happen: the
\* effect runs, time passes, a timer that is due fires.  What the device does
\* (its events, the end of the session) and what the user does is left open
SpecCaptureFair ==
  /\ Init
  /\ [][NextCapture]_vars
  /\ WF_vars(SyncRef)
  /\ WF_vars(Tick)
  /\ WF_vars(DebounceFire)

\* the whole machine where what is pending does happen: the effect runs, time
\* passes, timers fire, the classification and search calls settle, the
\* speech device reports the end of what it speaks.  What the user and the
\* recognition device do is left open
SpecFair ==
  /\ Init
  /\ [][Next]_vars
  /\ WF_vars(SyncRef)
  /\ WF_vars(Tick)
  /\ WF_vars(DebounceFire)
  /\ WF_vars(RelistenFire)
  /\ WF_vars(ClassifyResolve \/ ClassifyFail)
  /\ WF_vars(SearchResolve \/ SearchFail)
  /\ WF_vars(UtteranceEnd)
  /\ WF_vars(UtteranceCancelled \/ UtteranceDropped)

\* the same with a streamed voice: the speech request settles, the media
\* source opens, every read of the byte source settles, and the element
\* reports the end of what it plays
SpecStreamFair ==
  /\ InitStream
  /\ [][NextStream]_vars
  /\ WF_vars(SyncRef)
  /\ WF_vars(Tick)
  /\ WF_vars(DebounceFire)
  /\ WF_vars(RelistenFire)
  /\ WF_vars(ClassifyResolve \/ ClassifyFail)
  /\ WF_vars(SearchResolve \/ SearchFail)
  /\ WF_vars(UtteranceEnd)
  /\ WF_vars(UtteranceCancelled \/ UtteranceDropped)
  /\ WF_vars(GenerateSpeechSettled)
  /\ WF_vars(SourceOpen)
  /\ WF_vars(ReadChunk \/ ReadFailed \/ ReadDone)
  /\ WF_vars(AudioEnded)

(***************************************************************************)
(* Claims.                                                                 *)
(***************************************************************************)
\* the transition table of the assistant state
TransitionTable ==
  { << "idle", "listening" >>, << "error", "listening" >>,
    << "listening", "thinking" >>, << "listening", "idle" >>,
    << "listening", "error" >>, << "thinking", "speaking" >>,
    << "speaking", "idle" >>, << "speaking", "listening" >> }

\* C1: every change of the assistant state is a transition of the table
\* (Idle/Error -> Listening, Listening -> Thinking | Idle | Error,
\* Thinking -> Speaking, Speaking -> Idle | Listening); no other change,
\* such as Idle -> Speaking or Listening -> Speaking, ever occurs.
C1_OnlyTableTransitions ==
  [][assistantState' # assistantState
       => << assistantState, assistantState' >> \in TransitionTable]_vars

\* C2: the assistant is never Speaking while a speech-recognition session is
\* active, also when a search-fallback message is spoken after the re-listen
\* timer of the same action has fired.
C2_NotSpeakingWhileRecognitionActive ==
  recognitionActive => assistantState # "speaking"

C4_DuplicateStartRejected ==
  [][(/\ hist'.op \in { "click", "relisten" }
      /\ \/ assistantState \notin { "idle", "error" }
         \/ rec # "off")
       => /\ "recognition.start" \notin hist'.ran
          /\ fullTranscriptRef' = fullTranscriptRef
          /\ assistantState' = assistantState]_vars

\* C5: two speech outputs are never audible together: at most one of the
\* streamed audio element and the browser utterances is playing at any time,
\* also after a fallback to the browser voice from a partially played stream.
C5_NoOverlappingOutput ==
  (IF audio.st = "playing" THEN 1 ELSE 0)
    + Cardinality({u \in DOMAIN utt : utt[u].st = "speaking"}) <= 1

\* C6: the text handed to the classifier at the end of a listening session
\* equals the trimmed texts of all final segments of the session's update
\* events, joined by single spaces in arrival order, whatever mix of interim
\* and final segments each event carried.
C6_ClassifierGetsJoinedFinals ==
  (hist.op = "onend" /\ "handleTranscript" \in hist.ran)
    => hist.arg = hist.expected

\* C7: no text of an interim segment reaches the classifier: the argument of
\* processTranscript / handleTranscript, and every transcript waiting for the
\* classifier, holds no character of an interim segment, for every
\* interleaving of interim and final updates; the same for the command the
\* earlier variant of onresult hands to processCommand.
C7_NoInterimReachesClassifier ==
  /\ "i" \notin Chars(hist.arg)
  /\ \A k \in DOMAIN inflight : "i" \notin Chars(inflight[k].text)
  /\ hist.op = "onresult" => "i" \notin Chars(part000_onresult(hist.input).command)

\* a session whose last update still showed interim text ended and its
\* finalized text went to the classifier
C7_Witness ==
  /\ hist.op = "onend"
  /\ "handleTranscript" \in hist.ran
  /\ "i" \in Chars(transcript)
  /\ hist.arg # <<>>

\* some segment of ev is final
HasFinal(ev) == \E k \in DOMAIN ev : ev[k].isFinal

\* C8: a final segment that arrives while the debounce timer is pending
\* cancels it and starts a new timer of the full 1500 ms; and the debounce
\* timer stops the recognition session only when 1500 ms have passed since
\* the most recent final segment, never earlier.
C8_DebounceRestart ==
  [][/\ (hist'.op = "onresult" /\ HasFinal(hist'.input) /\ debounce # NoTimer)
          => debounce' = DebounceMs
     /\ (hist'.op = "debounce" /\ "recognition.stop" \in hist'.ran)
          => hist.sinceFinal >= DebounceMs]_vars

\* C9: once a final segment has been accumulated in a listening session, the
\* session is eventually stopped by the debounce timer (or has ended before),
\* whatever updates follow, without the device ending the session by itself.
C9_SelfTermination ==
  (rec = "on" /\ recognitionActive /\ Trim(fullTranscriptRef) # <<>>)
    ~> (rec # "on")

C11_OnErrorOutcome ==
  [][hist'.op = "onerror" =>
       /\ debounce' = NoTimer
       /\ IF hist'.input \in { "no-speech", "aborted" }
          THEN assistantState' = "idle"
          ELSE /\ assistantState' = "error"
               /\ assistantStatusText' = "Mic Error"]_vars

\* a fatal error arrived while the timer armed by the session's only update
\* was still running
C11_Witness ==
  /\ hist.op = "onerror"
  /\ hist.input = "network"
  /\ assistantState = "error"
  /\ hist.results = 1
  /\ hist.sinceFinal \in 0..(DebounceMs - 1)
  /\ fullTranscriptRef # <<>>
  /\ debounce = NoTimer

\* C12: retry policy of the classification call: when every attempt fails
\* with a rate-limit / quota signal the model is called exactly 3 times and
\* the failure is then surfaced to the caller; when attempt k (1, 2 or 3)
\* succeeds its result is returned and no attempt is made after k.
C12_RetryPolicy ==
  /\ (api.pc = "done" /\ \A k \in DOMAIN api.log : api.log[k] = "rate")
       => (api.calls = 3 /\ api.outcome = "quota error")
  /\ \A k \in DOMAIN api.log :
       api.log[k] = "ok"
         => (k = Len(api.log) /\ k <= 3 /\ api.calls = k
             /\ api.pc \in { "parse", "done" })

\* C13: a failure of the model call that is not a rate-limit / quota signal
\* is never retried by callGeminiWithRetry: on whichever attempt it occurs
\* the call is over at once with that error for the caller, no wait follows
\* it and no attempt follows it.
C13_OtherFailureNotRetried ==
  api.variant = "services/api.ts" =>
    \A k \in DOMAIN api.log :
      api.log[k] = "other"
        => /\ k = Len(api.log)
           /\ api.calls = k
           /\ api.pc = "done"
           /\ api.outcome = "error"
           /\ Len(api.waited) = k - 1

\* the second attempt, made after a rate-limit failure and its wait, failed
\* with another error and processTranscript's catch block ran
C13_Witness ==
  /\ api.variant = "services/api.ts"
  /\ api.log = << "rate", "other" >>
  /\ api.waited = << InitialDelayMs >>
  /\ hist.op = "call settled"
  /\ "rejected" \in hist.ran

\* the answer is not JSON, or lacks the field action or the field replyText
Malformed(p) ==
  ~p.parses \/ p.action = Missing \/ p.replyText = MissingText

\* C14: a classifier response that is unparseable or lacks action or
\* replyText is treated as a classification failure: no exception escapes,
\* the apology message is what the user hears (state Speaking with that
\* message) and the action dispatched after it is not the response's.
C14_MalformedIsFailure ==
  [][(hist'.op = "text parsed" /\ Malformed(hist'.input))
       => /\ "speak threw" \notin hist'.ran
          /\ assistantState' = "speaking"
          /\ assistantReply' = Clean(Message)
          /\ Len(sp') = Len(sp) + 1
          /\ sp'[Len(sp')].action = "reply"]_vars

\* the step in which the classification call ends in failure: handleTranscript
\* rejects, or (part_001) resolves with its apology
ClassificationFailed ==
  /\ hist'.op \in { "call settled", "text parsed" }
  /\ hist'.ran \cap { "rejected", "apology" } # {}

\* C15: when classification fails while the state is Thinking, that step
\* sets the state to Speaking with the error message as the reply, starts no
\* recognition and arms no re-listen timer; and when the completion handler of
\* a speak call whose response is a plain reply runs, the state becomes Idle,
\* again with no recognition started and no re-listen timer armed.
C15_FailureSpeaksThenIdle ==
  [][/\ (ClassificationFailed /\ assistantState = "thinking")
          => /\ assistantState' = "speaking"
             /\ assistantReply' = Clean(Message)
             /\ Len(sp') = Len(sp) + 1
             /\ sp'[Len(sp')].action = "reply"
             /\ relisten' = relisten
             /\ rec' = rec
             /\ "recognition.start" \notin hist'.ran
      /\ \A u \in DOMAIN utt :
           (/\ utt[u].st # "done"
            /\ utt'[u].st = "done"
            /\ "handleEnd" \in hist'.ran
            /\ sp[utt[u].owner].action = "reply")
             => /\ assistantState' = "idle"
                /\ relisten' = relisten
                /\ rec' = rec
                /\ "recognition.start" \notin hist'.ran]_vars

\* the error message of a failed classification was spoken to its end and
\* the machine is idle, with nothing pending
C15_Witness ==
  /\ hist.op = "utterance end"
  /\ "handleEnd" \in hist.ran
  /\ api.outcome \in { "error", "quota error", "parse error", "apology" }
  /\ Len(sp) = 1
  /\ assistantReply = Clean(Message)
  /\ assistantState = "idle"
  /\ relisten = <<>>
  /\ rec = "off"
\* C16: the system never stays in Thinking forever: once the classification
\* call has returned or failed (no call is in flight any more), a machine
\* that is in Thinking eventually leaves Thinking, for every reply text,
\* including one that is empty after cleaning.
C16_ThinkingEnds ==
  [](assistantState = "thinking" /\ inflight = <<>>
       => <>(assistantState # "thinking"))
\* C17: the system never stays in Speaking forever: whenever the state is
\* Speaking it eventually is not, for every streamed byte source (also one
\* that yields no chunk or fails in the middle) and for the browser voice,
\* when the device callbacks that are due are delivered.
C17_SpeakingEnds ==
  [](assistantState = "speaking" => <>(assistantState # "speaking"))
\* the step in which the streamed playback of a speak call fails: the speech
\* source gave no stream, play() rejected, the source buffer could not be
\* added, an append threw, a read of the byte source failed, or the audio
\* element reported an error
StreamedPlaybackFailed ==
  \/ hist'.op = "generateSpeech settled" /\ hist'.input = "null"
  \/ hist'.op = "play rejected"
  \/ hist'.op = "sourceopen" /\ hist'.input = FALSE
  \/ hist'.op = "read failed"
  \/ hist'.op = "audio error"
  \/ /\ hist'.op = "read chunk"
     /\ \E i \in DOMAIN sp : sp[i].pc = "stream" /\ sp'[i].pc = "end"

\* C18: every failure of the streamed playback path calls the browser voice
\* in the same step, with the cleaned reply text of the speak call that
\* failed, and the utterance is handed to the speech device.
C18_FailureFallsBack ==
  [][StreamedPlaybackFailed
       => /\ "speechSynthesis.speak" \in hist'.ran
          /\ Len(utt') = Len(utt) + 1
          /\ LET u == utt'[Len(utt')]
             IN  /\ u.st = "speaking"
                 /\ u.owner \in DOMAIN sp
                 /\ u.text = sp[u.owner].text
                 /\ u.text # <<>>
                 /\ CASE hist'.op = "generateSpeech settled" ->
                           sp[u.owner].pc = "gen"
                      [] hist'.op = "play rejected" ->
                           sp[u.owner].play = "pending"
                      [] hist'.op = "sourceopen" -> sp[u.owner].pc = "open"
                      [] hist'.op = "audio error" -> u.owner = audio.handler
                      [] OTHER -> sp[u.owner].pc = "stream"]_vars

\* a read of the byte source failed while the element was playing the first
\* chunks, and the reply was handed to the browser voice
C18_Witness ==
  /\ hist.op = "read failed"
  /\ "speechSynthesis.speak" \in hist.ran
  /\ audio.st = "playing"
  /\ utt # <<>>
  /\ utt[Len(utt)].st = "speaking"
  /\ utt[Len(utt)].text = assistantReply
  /\ assistantState = "speaking"
\* C19: for every call of speak the playback-completion handler (handleEnd)
\* runs at most once, whatever combination of ended, error and fallback
\* callbacks fires: the state is set to Idle once and the action of the
\* response is dispatched once.
C19_HandleEndOnce == \A i \in DOMAIN sp : sp[i].ended <= 1
\* C20: appends to the audio sink are serialized: appendBuffer is never
\* called on a sink whose previous append is still in progress, and a chunk
\* that arrives while an append is in progress on its sink is put on the
\* queue without an append.
C20_AppendsSerialized ==
  [][/\ "append in progress" \notin hist'.ran
     /\ \A i \in DOMAIN sp :
          (hist'.op = "chunk" /\ hist'.input = i /\ sp[i].updating)
            => /\ audio'.queue = Append(audio.queue, Chunk(i, sp[i].chunks + 1))
               /\ "appendBuffer" \notin hist'.ran
               /\ sp'[i].updating]_vars

\* a chunk arrived while the append of the chunk before it was in progress
\* and was put on the queue
C20_Witness ==
  /\ hist.op = "chunk"
  /\ "enqueue" \in hist.ran
  /\ hist.input \in DOMAIN sp
  /\ sp[hist.input].updating
  /\ sp[hist.input].chunks = 2
  /\ audio.queue = << Chunk(hist.input, 2) >>
\* the chunks read so far from the byte source of speak call i, in order
ChunksRead(i) == [n \in 1..sp[i].chunks |-> Chunk(i, n)]

\* the chunks on the queue that were read by speak call i
Queued(i) == SelectSeq(audio.queue, LAMBDA c : c.from = i)

\* C21: in a playback session that is not stopped (its media source is still
\* attached), the chunks given to the sink, followed by the chunks of the
\* session waiting on the queue, are the chunks read from its byte source:
\* same order, none dropped, none duplicated, none from elsewhere.
C21_AppendedIsRead ==
  \A i \in DOMAIN sp :
    sp[i].ready \in { "open", "ended" }
      => sp[i].appended \o Queued(i) = ChunksRead(i)
\* C22: end-of-stream is signalled on the sink of a reply by its updateend
\* listener only when the byte source of that reply is exhausted (the reader
\* loop has seen done) and the chunk queue is empty.
C22_EndOfStreamWhenExhausted ==
  [][(hist'.op = "updateend" /\ "endOfStream" \in hist'.ran)
       => /\ sp[hist'.input].pc = "end"
          /\ audio.queue = <<>>]_vars
Clamp(x, lo, hi) == IF x < lo THEN lo ELSE IF x > hi THEN hi ELSE x

\* the text of a level is a number
IsNumberText(level) == level # <<>> /\ Chars(level) \subseteq
  { "0", "1", "2", "3", "4", "5", "6", "7", "8", "9" }

\* the value the action reads as current: getVolume() of the player in
\* App.tsx, the volume state in part_000
CurrentVolume ==
  IF media.component = "App.tsx" THEN media.playerVolume ELSE media.volume

\* C24: a volume action on an existing player yields clamp(current + 10) for
\* 'increase', clamp(current - 10) for 'decrease' and clamp(n) for a number
\* n, with bounds 0 and 100; a brightness action yields the same with bounds
\* 20 and 150; and after any sequence of actions the volume is a number in
\* 0..100 and the brightness a number in 20..150.
C24_LevelsClamped ==
  /\ [](/\ ~media.volume.nan /\ media.volume.v \in 0..100
        /\ ~media.brightness.nan /\ media.brightness.v \in 20..150)
  /\ [][/\ (hist'.op = "volume" /\ media.player /\ ~CurrentVolume.nan)
            => LET level == hist'.input
               IN  /\ level = Increase =>
                        media'.volume = Num(Clamp(CurrentVolume.v + 10, 0, 100))
                   /\ level = Decrease =>
                        media'.volume = Num(Clamp(CurrentVolume.v - 10, 0, 100))
                   /\ IsNumberText(level) =>
                        media'.volume = Num(Clamp(DigitsValue(level, 0), 0, 100))
        /\ (hist'.op = "brightness" /\ ~media.brightness.nan)
            => LET level == hist'.input
               IN  /\ level = Increase =>
                        media'.brightness =
                          Num(Clamp(media.brightness.v + 10, 20, 150))
                   /\ level = Decrease =>
                        media'.brightness =
                          Num(Clamp(media.brightness.v - 10, 20, 150))
                   /\ IsNumberText(level) =>
                        media'.brightness =
                          Num(Clamp(DigitsValue(level, 0), 20, 150))]_vars
\* C25: a volume action whose level is neither 'increase' nor 'decrease' and
\* is a text without any digit leaves the volume as it was.
C25_UnparsedLevelKeepsVolume ==
  [][(/\ hist'.op = "volume"
      /\ hist'.input \notin { Increase, Decrease, MissingText }
      /\ \A k \in 1..Len(hist'.input) : ~IsDigit(hist'.input[k]))
       => media'.volume = media.volume]_vars
\* the action kinds after which the assistant listens again by itself
RelistenKinds ==
  { "play_music", "play_video", "search_youtube", "next_video",
    "previous_video", "play", "pause", "volume", "set_brightness" }

\* the completion handler of the reply of a classified response runs
ReplyFinished(u) ==
  /\ utt[u].st # "done"
  /\ utt'[u].st = "done"
  /\ "handleEnd" \in hist'.ran
  /\ sp[utt[u].owner].cb = "exec"

\* C26: when the reply of a classified action has finished playing, a
\* re-listen timer of 700 ms is armed exactly when the action kind is in the
\* media/environment set, and for every other kind the state is Idle and
\* nothing is started; when a re-listen timer fires, Listening is re-entered
\* if the state is Idle, and nothing happens otherwise.
C26_RelistenPolicy ==
  [][/\ \A u \in DOMAIN utt :
          ReplyFinished(u)
            => IF sp[utt[u].owner].action \in RelistenKinds
               THEN relisten' = Append(relisten, 700)
               ELSE /\ relisten' = relisten
                    /\ assistantState' = "idle"
                    /\ "recognition.start" \notin hist'.ran
     /\ hist'.op = "relisten"
          => IF assistantStateRef = "idle" /\ assistantState = "idle"
             THEN /\ assistantState' = "listening"
                  /\ "recognition.start" \in hist'.ran
                  /\ rec' = "starting"
             ELSE assistantStateRef # "idle"
                    => /\ assistantState' = assistantState
                       /\ "recognition.start" \notin hist'.ran
                       /\ rec' = rec]_vars

\* a video is playing in the player of the video panel
ActivePlayer ==
  /\ media.player
  /\ media.playing
  /\ media.renderedPanel = "youtube"

\* the reply of an utterance classified as Pause has been spoken to its end
\* while a video is playing
PauseReplyFinished(u) ==
  /\ ReplyFinished(u)
  /\ sp[utt[u].owner].action = "pause"
  /\ ActivePlayer

\* C27: for an utterance classified as Pause with an active media player,
\* the reply text is spoken, the player is paused and the state returns to
\* Idle with no automatic re-listen: no re-listen timer is armed and no
\* recognition session is started.
C27_PauseWithoutRelisten ==
  [][\A u \in DOMAIN utt :
       PauseReplyFinished(u)
         => /\ utt[u].text = sp[utt[u].owner].text
            /\ utt[u].text # <<>>
            /\ "pauseVideo" \in hist'.ran
            /\ ~media'.playing
            /\ assistantState' = "idle"
            /\ relisten' = relisten
            /\ "recognition.start" \notin hist'.ran]_vars

\* C27 as amended: for an utterance classified as Pause with an active media
\* player, when the spoken reply has finished the player is paused, the
\* state is Idle and the re-listen timer of 700 ms is armed (Pause is in the
\* re-listen set).
C27_PauseThenRelisten ==
  [][\A u \in DOMAIN utt :
       PauseReplyFinished(u)
         => /\ utt[u].text = sp[utt[u].owner].text
            /\ utt[u].text # <<>>
            /\ "pauseVideo" \in hist'.ran
            /\ ~media'.playing
            /\ assistantState' = "idle"
            /\ relisten' = Append(relisten, 700)
            /\ "recognition.start" \notin hist'.ran]_vars

C27_Witness ==
  /\ hist.op = "utterance end"
  /\ "pauseVideo" \in hist.ran
  /\ media.player
  /\ media.renderedPanel = "youtube"
  /\ ~media.playing
  /\ assistantState = "idle"
  /\ relisten = << 700 >>

\* the search of a SearchYouTube action has ended with a list of results
SearchMediaEnded ==
  /\ hist'.op = "searched"
  /\ hist'.search # <<>>
  /\ hist'.search[1].action = "search_youtube"

\* C28: when the search of a SearchYouTube action returns no result, a
\* fallback message is spoken and the action leaves the panel as it was,
\* both before and after its search; when it returns results, the list is
\* populated and shown and no video starts playing: the action leaves the
\* video id and the current index as they were.
C28_SearchMedia ==
  [][SearchMediaEnded
       => LET before == hist'.search[1].before
              after == hist'.search[1].after
          IN  IF hist'.input = <<>>
              THEN /\ "speechSynthesis.speak" \in hist'.ran
                   /\ after.targetPanel = before.targetPanel
                   /\ media'.targetPanel = media.targetPanel
              ELSE /\ youtubeSearchResults' = hist'.input
                   /\ media'.targetPanel = "youtubeSearchResults"
                   /\ "handleVideoSelect" \notin hist'.ran
                   /\ after.youtubeVideoId = before.youtubeVideoId
                   /\ after.currentVideoIndex = before.currentVideoIndex
                   /\ media'.youtubeVideoId = media.youtubeVideoId
                   /\ media'.currentVideoIndex = media.currentVideoIndex]_vars

\* the search of a PlayMusic action has ended with a list of results
PlayMediaEnded ==
  /\ hist'.op = "searched"
  /\ hist'.search # <<>>
  /\ hist'.search[1].action = "play_music"

\* C29: when the search of a PlayMusic action returns results, the first
\* result is played at once; when it returns none, a fallback message is
\* spoken and the action leaves the target panel, the video id, the video
\* title, the current index and the results list as they were, both before
\* and after its search.
C29_PlayMedia ==
  [][PlayMediaEnded
       => IF hist'.input # <<>>
          THEN /\ "handleVideoSelect" \in hist'.ran
               /\ media'.youtubeVideoId = hist'.input[1]
               /\ media'.youtubeVideoTitle = Title(hist'.input[1])
               /\ media'.currentVideoIndex = First
               /\ media'.targetPanel = "youtube"
               /\ youtubeSearchResults' = hist'.input
          ELSE /\ "speechSynthesis.speak" \in hist'.ran
               /\ hist'.search[1].after = hist'.search[1].before
               /\ PanelState([media |-> media',
                              youtubeSearchResults |-> youtubeSearchResults'])
                    = PanelState(St)]_vars

\* the utterance of a message the component speaks by itself has ended
MessageFinished(u) ==
  /\ utt[u].st # "done"
  /\ utt'[u].st = "done"
  /\ "handleEnd" \in hist'.ran
  /\ sp[utt[u].owner].cb = "none"

\* C30: a search that fails (missing API key, network error, response that
\* is not OK) during a SearchYouTube or PlayMusic action, started after the
\* reply was spoken, does not end as an unhandled rejection: a not-found
\* message is spoken, and the state is Idle when that message has been
\* spoken.
C30_SearchFailureSurfaced ==
  [][/\ (hist'.op = "search failed" /\ assistantState = "idle")
          => /\ "unhandled rejection" \notin hist'.ran
             /\ "speechSynthesis.speak" \in hist'.ran
             /\ assistantState' = "speaking"
     /\ \A u \in DOMAIN utt :
          MessageFinished(u) => assistantState' = "idle"]_vars

\* a letter of a scheme
IsSchemeLetter(c) == ToLower(c) \in { "h", "t", "p", "s", "f", "a", "b" }

\* the URL starts with a scheme: letters followed by ://
HasScheme(url) ==
  \E k \in 1..Len(url) :
    /\ \A j \in 1..k : IsSchemeLetter(url[j])
    /\ Len(url) >= k + 3
    /\ SubSeq(url, k + 1, k + 3) = << ":", "/", "/" >>

\* C31: every URL given to window.open by an OpenUrl action starts with a
\* scheme, and it is 'https://' followed by the url parameter when the
\* parameter has no scheme.
C31_OpenedUrlNormalized ==
  hist.op = "open url"
    => \A k \in DOMAIN hist.opened :
         /\ HasScheme(hist.opened[k])
         /\ ~HasScheme(hist.input) => hist.opened[k] = HttpsPrefix \o hist.input

\* the playback session of speak call i was torn down: its media source was
\* detached from the element
TornDown(i) == sp[i].ready = "closed"

\* C32: once stopSpeaking has torn down the playback session of a speak
\* call, its byte source is not read any more, none of its chunks is put on
\* the queue or appended to any sink, and no step of the session (a chunk
\* read, the end of its byte source, an append or updateend of its sink)
\* changes the state or starts speech.
C32_TornDownSessionIsDead ==
  [][\A i \in DOMAIN sp :
       TornDown(i)
         => /\ sp'[i].chunks = sp[i].chunks
            /\ \A k \in DOMAIN audio'.queue : audio'.queue[k].from # i
            /\ \A j \in DOMAIN sp :
                 \A k \in DOMAIN sp'[j].appended :
                   k > Len(sp[j].appended) => sp'[j].appended[k].from # i
            /\ (hist'.op \in { "chunk", "read done", "append done",
                               "updateend" }
                  /\ hist'.input = i)
                 => /\ assistantState' = assistantState
                    /\ "speechSynthesis.speak" \notin hist'.ran]_vars

\* C33: a recognition session is only ever started while no debounce timer
\* is pending, and a debounce timer that fires and calls stop does so in the
\* session in which it was armed (hist.armed is the number of the session
\* whose final segment armed the pending timer, hist.turns the number of the
\* session opened last).
C33_DebounceStaysInSession ==
  [][/\ hist'.turns # hist.turns
          => debounce = NoTimer /\ debounce' = NoTimer
     /\ (hist'.op = "debounce" /\ "recognition.stop" \in hist'.ran)
          => hist.armed = hist.turns /\ hist'.turns = hist.turns]_vars

\* a timer armed in the second session has fired and stopped that session
C33_Witness ==
  /\ hist.op = "debounce"
  /\ "recognition.stop" \in hist.ran
  /\ hist.turns = 2
  /\ rec = "stopping"

\* C34: the onend that follows an onerror of the session (the error callback
\* has set the state to idle or error) never calls the classifier, whatever
\* text was finalized and whether or not assistantStateRef has been
\* synchronised, and leaves the state as the error callback set it.
C34_OnEndAfterErrorIsInert ==
  [][(/\ hist'.op = "onend"
      /\ rec = "errored"
      /\ assistantState \in { "idle", "error" })
       => /\ "handleTranscript" \notin hist'.ran
          /\ inflight' = inflight
          /\ assistantState' = assistantState]_vars

\* the characters of text that are not spaces, in order
IsNotSpace(c) == c # " "
WithoutSpaces(text) == SelectSeq(text, IsNotSpace)

\* C35: a start that opens a session leaves the accumulated final text and
\* the displayed transcript empty, and the text handed to the classifier at
\* the end of a session holds the characters of the final segments of that
\* session and no other (hist.expected is reset when a session is opened).
C35_SessionStartsEmpty ==
  [][/\ hist'.turns # hist.turns
          => /\ assistantState' = "listening"
             /\ fullTranscriptRef' = <<>>
             /\ transcript' = <<>>
     /\ (hist'.op = "onend" /\ "handleTranscript" \in hist'.ran)
          => WithoutSpaces(hist'.arg) = WithoutSpaces(hist.expected)]_vars

\* the second session of the run ended and handed its text to the
\* classifier, after the reply to the text of the first was spoken
C35_Witness ==
  /\ hist.op = "onend"
  /\ "handleTranscript" \in hist.ran
  /\ hist.turns = 2
  /\ Len(sp) >= 1
  /\ WithoutSpaces(hist.arg) = << "f" >>

\* C36: backoff of callGeminiWithRetry: the wait taken before attempt 2 is
\* 1000 ms and the wait before attempt 3 is 2000 ms; attempt k + 1 is only
\* made after wait k; and after the failure of the last attempt no wait is
\* taken: the call is over with the quota error after exactly these two
\* waits.
C36_BackoffSchedule ==
  api.variant = "services/api.ts" =>
    /\ \/ api.waited = <<>>
       \/ api.waited = << 1000 >>
       \/ api.waited = << 1000, 2000 >>
    /\ api.calls = Len(api.waited) \/ api.calls = Len(api.waited) + 1
    /\ api.pc = "sleep" => api.calls = Len(api.waited) + 1 /\ api.calls < 3
    /\ api.outcome = "quota error"
         => api.pc = "done" /\ api.calls = 3 /\ api.waited = << 1000, 2000 >>

\* three attempts failed with a rate-limit error, with both waits between
\* them, and the quota error was surfaced to processTranscript
C36_Witness ==
  /\ api.variant = "services/api.ts"
  /\ api.log = << "rate", "rate", "rate" >>
  /\ api.waited = << 1000, 2000 >>
  /\ api.outcome = "quota error"
  /\ hist.op = "call settled"

\* the kinds of AssistantAction (types.ts)
AssistantActionKinds ==
  { "search_youtube", "play_video", "play_music", "next_video",
    "previous_video", "pause", "play", "stop", "volume", "set_brightness",
    "create_note", "set_reminder", "open_url", "manage_tabs",
    "browser_history", "open_file", "read_file", "write_file", "edit_file",
    "get_weather", "get_date_time", "tell_joke", "web_search",
    "generate_code", "simulate_app_control", "simulate_phone_control",
    "reply" }

\* C37: when the reply of a response whose action kind is not one of the
\* known kinds has finished, the dispatch changes nothing of the panels, the
\* video, the player, the volume or the brightness, starts no search, opens
\* nothing, speaks nothing and arms no re-listen timer: the state is Idle and
\* recognition is not started.
C37_UnknownActionIsReplyOnly ==
  [][\A u \in DOMAIN utt :
       (ReplyFinished(u) /\ sp[utt[u].owner].action \notin AssistantActionKinds)
         => /\ media' = media
            /\ youtubeSearchResults' = youtubeSearchResults
            /\ searches' = searches
            /\ hist'.opened = <<>>
            /\ relisten' = relisten
            /\ Len(sp') = Len(sp)
            /\ "recognition.start" \notin hist'.ran
            /\ assistantState' = "idle"]_vars

\* the reply of an unknown kind finished while a video was playing in the
\* video panel
C37_Witness ==
  /\ hist.op = "utterance end"
  /\ "handleEnd" \in hist.ran
  /\ \E i \in DOMAIN sp : sp[i].action = UnknownAction /\ sp[i].cb = "exec"
  /\ sp[Len(sp)].action = UnknownAction
  /\ ActivePlayer
  /\ assistantState = "idle"
  /\ relisten = <<>>

\* C38: when recognition.start() throws inside startListening the handler
\* ends with the state Error, the status 'Mic Error' and recognitionActive
\* false; and the system is not locked out: once the device has no session,
\* a press of the button in that Error state opens a session and enters
\* Listening (hist.threw: the state Error was set by the catch block of
\* startListening).
C38_StartFailureRecoverable ==
  [][/\ "start threw" \in hist'.ran
          => /\ assistantState' = "error"
             /\ assistantStatusText' = "Mic Error"
             /\ recognitionActive' = FALSE
     /\ (hist'.op = "click" /\ hist.threw /\ assistantState = "error"
          /\ rec = "off")
          => /\ assistantState' = "listening"
             /\ "recognition.start" \in hist'.ran
             /\ "start threw" \notin hist'.ran
             /\ rec' = "starting"]_vars

\* the button was pressed in the Error state left by a start that threw, and
\* a session is opening
C38_Witness ==
  /\ hist.op = "click"
  /\ hist.threw
  /\ assistantState = "listening"
  /\ assistantStatusText = "Listening..."
  /\ rec = "starting"
  /\ ~recognitionActive

\* C39: the classifier is only called by the onend that closes a listening
\* session (so at most once per session), never with empty text, and only
\* when no classification is in flight: at most one is in flight at any
\* time, and the previous one has left the queue (its reply was handed to
\* speak) before the next one starts.
C39_OneClassificationAtATime ==
  [][/\ Len(inflight') <= 1
     /\ \A k \in DOMAIN inflight' : inflight'[k].text # <<>>
     /\ ("handleTranscript" \in hist'.ran \/ Len(inflight') > Len(inflight))
          => /\ hist'.op = "onend"
             /\ rec # "off" /\ rec' = "off"
             /\ inflight = <<>>
             /\ Len(inflight') = 1
             /\ hist'.arg = inflight'[1].text
             /\ hist'.arg # <<>>]_vars

\* C40: whenever currentVideoIndex is not null it is an index of the current
\* list of search results and the video id is the id of the result at that
\* index; and a skip from the last result of the list leaves the index
\* unchanged and speaks a message whose completion closes the panel.
C40_IndexMatchesResults ==
  [][/\ media'.currentVideoIndex # Null
          => /\ IndexNumber(media'.currentVideoIndex) < Len(youtubeSearchResults')
             /\ media'.youtubeVideoId
                  = youtubeSearchResults'[IndexNumber(media'.currentVideoIndex) + 1]
     /\ (/\ hist'.op = "player error"
         /\ media.currentVideoIndex # Null
         /\ IndexNumber(media.currentVideoIndex) + 1 = Len(youtubeSearchResults))
          => /\ media'.currentVideoIndex = media.currentVideoIndex
             /\ "speechSynthesis.speak" \in hist'.ran
             /\ sp'[Len(sp')].cb = "close"
     /\ \A u \in DOMAIN utt :
          (/\ utt[u].st # "done" /\ utt'[u].st = "done"
           /\ "handleEnd" \in hist'.ran
           /\ sp[utt[u].owner].cb = "close")
            => media'.targetPanel = "none"]_vars
====
